---- MODULE Spec2Model ----
(***************************************************************************)
(* A model of the agentic-ai course labs: the PriceMeter cost estimator,   *)
(* the keyword tool dispatch of the agent demos, the Auto-GPT style loop,  *)
(* the structured-output parsers, the string-returning tools and the       *)
(* construction of the clients from the environment.                       *)
(*                                                                         *)
(* Text is a sequence of one-character strings, so that lower-casing and   *)
(* substring tests are computed character by character.  Money is kept in  *)
(* exact integer units (see PRICING); Python's floats are not modelled.    *)
(* A Python call either returns or raises: Ret(v) and Raise(e).            *)
(***************************************************************************)
EXTENDS Integers, Sequences, FiniteSets, TLC

VARIABLES
    \* PriceMeter (cost_tracker.py)
    pm_built,         \* whether __init__ has run
    pm_provider,      \* self.provider
    pm_tokenizer,     \* TRUE when self.tokenizer is a tiktoken encoding, FALSE when None
    pm_args,          \* the arguments of the last estimate_cost call
    pm_result,        \* what the last estimate_cost call returned or raised
    \* Tool dispatch (demo_autogpt_loop.py, demo_plan_act_reflect.py)
    d_task,           \* the task or step text the LLM wrote
    d_words,          \* the number of pieces d_task was put together from
    d_autogpt_tool,   \* the tool execute_task chose for d_task, "none" before the call
    d_par_tool,       \* the tool execute_step chose for d_task, "none" before the call
    \* Structured-output parsing (prompt_lab.py and the two agent demos)
    ps_response,      \* response.content, the text the LLM returned, as segments
    ps_fn,            \* the function that last parsed ps_response, "none" before a call
    ps_result,        \* what that function returned or raised
    \* AutoGPTStyleAgent (demo_autogpt_loop.py)
    ag_pc,            \* where run_autonomous_loop stands
    ag_cost_limit,    \* self.cost_limit, in the unit of ag_estimated_cost
    ag_max_iterations,\* self.max_iterations
    ag_estimated_cost,\* self.estimated_cost, in units of one Haiku input token (0.25e-6 dollar)
    ag_iteration,     \* the local variable iteration
    ag_actions_taken, \* self.memory["actions_taken"]
    ag_facts_learned, \* the keys of self.memory["facts_learned"] (n stands for "result_n")
    ag_assessment,    \* the local variable assessment
    ag_next_task,     \* the local variable next_task
    ag_llm_calls,     \* the number of self.llm.invoke calls made so far
    ag_exit,          \* how the while loop was left: "bound", "cost", "goal", "none" before
    ag_result,        \* the dict run_autonomous_loop returned
    \* The string-returning tools (agent_skeleton/tools.py, http_tool.py, email.py)
    tl_call,          \* the last tool call: the tool and what it was given
    tl_result,        \* what that call returned or raised
    em_now,           \* datetime.now(), in whole seconds
    em_outbox,        \* the files of outputs/email_outbox: second of the file name -> subject
    em_sent,          \* the number of send_email calls that answered with the success message
    \* Construction from the environment (model_client.py, search.py, memory.py)
    env,              \* os.environ: each variable "unset", "empty" or "set"
    cf_call,          \* the last constructor or factory called, "none" before
    cf_result,        \* what it returned or raised
    cf_used,          \* whether the constructed object has been used for a request
    \* Calls of the functions that keep no state of their own (model_client.py,
    \* run_eval.py, compute.py, csv_writer.py)
    fc_call,          \* the call in progress: the function and its arguments
    fc_result,        \* what it returned or raised
    \* SimpleMemory (agent_skeleton/memory.py): two instances on one file
    sm_file,          \* the memory file: whether it exists, holds valid JSON, and its conversations
    sm_inst,          \* per instance: where it stands, self.memory["conversations"], what it loaded
    \* CostLatencyCallback (agent_swiss_army/callbacks.py)
    cb_self,          \* the callback object: its totals, model_usage, current_llm_start
    cb_call,          \* the last on_llm_end call, how it ended, and the number of such calls
    \* PlanActReflectAgent.run (demos/demo_plan_act_reflect.py)
    par_pc,              \* where run stands
    par_max_iterations,  \* its argument
    par_iteration,       \* the loop variable `iteration`
    par_plan,            \* `plan`
    par_results,         \* `execution_results`
    par_reflection,      \* `reflection`
    par_cycles,          \* the number of reflections made so far
    par_return           \* what run returned ('iterations') or the exception that left it

meterVars == <<pm_built, pm_provider, pm_tokenizer, pm_args, pm_result>>

dispatchVars == <<d_task, d_words, d_autogpt_tool, d_par_tool>>

parseVars == <<ps_response, ps_fn, ps_result>>

loopVars ==
    <<ag_pc, ag_cost_limit, ag_max_iterations, ag_estimated_cost, ag_iteration,
      ag_actions_taken, ag_facts_learned, ag_assessment, ag_next_task, ag_llm_calls,
      ag_exit, ag_result>>

toolVars == <<tl_call, tl_result, em_now, em_outbox, em_sent>>

envVars == <<env, cf_call, cf_result, cf_used>>

fnVars == <<fc_call, fc_result>>

memVars == <<sm_file, sm_inst>>

callbackVars == <<cb_self, cb_call>>

runVars == <<par_pc, par_max_iterations, par_iteration, par_plan, par_results, par_reflection,
            par_cycles, par_return>>

vars == <<meterVars, dispatchVars, parseVars, loopVars, toolVars, envVars, fnVars, memVars, callbackVars, runVars>>

\* What each component leaves alone
MeterOnly == UNCHANGED <<dispatchVars, parseVars, loopVars, toolVars, envVars, fnVars, memVars, callbackVars, runVars>>

DispatchOnly == UNCHANGED <<meterVars, parseVars, loopVars, toolVars, envVars, fnVars, memVars, callbackVars, runVars>>

ParseOnly == UNCHANGED <<meterVars, dispatchVars, loopVars, toolVars, envVars, fnVars, memVars, callbackVars, runVars>>

LoopOnly == UNCHANGED <<meterVars, dispatchVars, parseVars, toolVars, envVars, fnVars, memVars, callbackVars, runVars>>

ToolsOnly == UNCHANGED <<meterVars, dispatchVars, parseVars, loopVars, envVars, fnVars, memVars, callbackVars, runVars>>

EnvOnly == UNCHANGED <<meterVars, dispatchVars, parseVars, loopVars, toolVars, fnVars, memVars, callbackVars, runVars>>

FnOnly == UNCHANGED <<meterVars, dispatchVars, parseVars, loopVars, toolVars, envVars, memVars, callbackVars, runVars>>

MemOnly == UNCHANGED <<meterVars, dispatchVars, parseVars, loopVars, toolVars, envVars, fnVars, callbackVars, runVars>>

CallbackOnly == UNCHANGED <<meterVars, dispatchVars, parseVars, loopVars, toolVars, envVars, fnVars, memVars, runVars>>

RunOnly == UNCHANGED <<meterVars, dispatchVars, parseVars, loopVars, toolVars, envVars, fnVars, memVars, callbackVars>>

(***************************************************************************)
(* Python values and exceptions                                            *)
(***************************************************************************)
Ret(v) == [raised |-> FALSE, exc |-> "none", val |-> v]

Raise(e) == [raised |-> TRUE, exc |-> e, val |-> "none"]

\* The classes an exception is an instance of besides its own, from the class
\* statements of Python, requests and duckduckgo_search
ExceptionBases ==
    [e \in {"ZeroDivisionError", "SyntaxError", "TypeError", "AttributeError",
            "KeyError", "IndexError", "ValueError", "JSONDecodeError", "OSError",
            "ImportError", "NameError",
            "ConnectionError", "Timeout", "RatelimitException"} |->
        CASE e = "ZeroDivisionError" -> {"ArithmeticError", "Exception"}
          [] e \in {"KeyError", "IndexError"} -> {"LookupError", "Exception"}
          [] e = "JSONDecodeError" -> {"ValueError", "Exception"}
          [] e \in {"ConnectionError", "Timeout"} -> {"RequestException", "OSError", "Exception"}
          [] e = "RatelimitException" -> {"DuckDuckGoSearchException", "Exception"}
          [] OTHER -> {"Exception"}]

\* isinstance(e, cls), which is what an except clause tests
IsInstance(e, cls) == e = cls \/ (e \in DOMAIN ExceptionBases /\ cls \in ExceptionBases[e])

(***************************************************************************)
(* Text                                                                    *)
(***************************************************************************)
UpperToLower ==
    "A" :> "a" @@ "B" :> "b" @@ "C" :> "c" @@ "D" :> "d" @@ "E" :> "e" @@
    "F" :> "f" @@ "G" :> "g" @@ "H" :> "h" @@ "I" :> "i" @@ "J" :> "j" @@
    "K" :> "k" @@ "L" :> "l" @@ "M" :> "m" @@ "N" :> "n" @@ "O" :> "o" @@
    "P" :> "p" @@ "Q" :> "q" @@ "R" :> "r" @@ "S" :> "s" @@ "T" :> "t" @@
    "U" :> "u" @@ "V" :> "v" @@ "W" :> "w" @@ "X" :> "x" @@ "Y" :> "y" @@
    "Z" :> "z"

\* str.lower(), character by character
Lower(s) ==
    [i \in 1..Len(s) |-> IF s[i] \in DOMAIN UpperToLower THEN UpperToLower[s[i]] ELSE s[i]]

\* Python's `kw in s` on strings: kw occurs in s as a contiguous run
Contains(s, kw) ==
    \E i \in 0..(Len(s) - Len(kw)) : \A j \in 1..Len(kw) : s[i + j] = kw[j]

(***************************************************************************)
(* PriceMeter                                                              *)
(***************************************************************************)
s_openai == <<"o", "p", "e", "n", "a", "i">>

s_anthropic == <<"a", "n", "t", "h", "r", "o", "p", "i", "c">>

s_google == <<"g", "o", "o", "g", "l", "e">>

\* The class attribute PRICING.  Each provider's models are kept in the order
\* the dict literal lists them (a Python dict keeps insertion order).  Prices
\* are dollars per 1M tokens times 1000 (0.075 is 75), so that a cost of
\* tokens / 1_000_000 * price dollars is tokens * price units of 1e-9 dollar.
PRICING ==
    s_openai :> <<
        [model |-> "gpt-4o", input |-> 2500, output |-> 10000],
        [model |-> "gpt-4o-mini", input |-> 150, output |-> 600],
        [model |-> "gpt-3.5-turbo", input |-> 500, output |-> 1500] >> @@
    s_anthropic :> <<
        [model |-> "claude-3-5-sonnet-20241022", input |-> 3000, output |-> 15000],
        [model |-> "claude-3-haiku-20240307", input |-> 250, output |-> 1250],
        [model |-> "claude-3-opus-20240229", input |-> 15000, output |-> 75000] >> @@
    s_google :> <<
        [model |-> "gemini-2.0-flash-exp", input |-> 75, output |-> 300],
        [model |-> "gemini-1.5-pro", input |-> 1250, output |-> 5000],
        [model |-> "gemini-1.5-flash", input |-> 75, output |-> 300] >>

\* The longest text given to the meter
MaxTextLen == 5

\* The provider strings a meter is built with
ProviderInputs ==
    { s_openai, <<"O", "p", "e", "n", "A", "I">>, s_anthropic,
      <<"G", "O", "O", "G", "L", "E">>, <<"m", "i", "s", "t", "r", "a", "l">> }

\* The model names given to estimate_cost
ModelInputs ==
    { "gpt-4o", "gpt-4o-mini", "claude-3-haiku-20240307", "gemini-1.5-pro",
      "no-such-model" }

\* A text as the meter sees it: its length, and the number of tokens the
\* cl100k_base encoding gives it (tiktoken is a library: any count from 1 to
\* the length for a text that is not empty; two of them are drawn).
Texts ==
    { [len |-> l, enc |-> n] : l \in 0..MaxTextLen, n \in 0..MaxTextLen } \cap
    { t \in [len : 0..MaxTextLen, enc : 0..MaxTextLen] :
        t.enc \in {t.len, (t.len + 3) \div 4} }

\* count_tokens(text)
count_tokens_div3(tokenizer, text) ==
    IF tokenizer THEN text.enc ELSE text.len \div 3

count_tokens(tokenizer, text) ==
    IF tokenizer THEN text.enc ELSE text.len \div 4

\* self.PRICING[self.provider][model]: the entry, or KeyError
ModelsOf(provider) == { PRICING[provider][i].model : i \in DOMAIN PRICING[provider] }

EntryOf(provider, model) ==
    CHOOSE e \in { PRICING[provider][i] : i \in DOMAIN PRICING[provider] } : e.model = model

pricing_lookup(provider, model) ==
    IF provider \notin DOMAIN PRICING THEN Raise("KeyError")
    ELSE IF model \notin ModelsOf(provider) THEN Raise("KeyError")
    ELSE Ret(EntryOf(provider, model))

\* What stands for "the provider's table is empty" (no entry has this shape)
NoPricingData == [model |-> "none", input |-> 0 - 1, output |-> 0 - 1]

NoBreakdown ==
    [present |-> FALSE, input_tokens |-> 0, output_tokens |-> 0, input_cost |-> 0,
     output_cost |-> 0, total_cost |-> 0, model |-> "none"]

\* The except KeyError branch: the first model of the provider's table.  The
\* handler reads self.PRICING[self.provider] again, outside any try.
fallback_pricing_last(provider) ==
    IF provider \notin DOMAIN PRICING THEN Raise("KeyError")
    ELSE IF Len(PRICING[provider]) > 0 THEN Ret(PRICING[provider][Len(PRICING[provider])])
    ELSE Ret(NoPricingData)

fallback_pricing(provider) ==
    IF provider \notin DOMAIN PRICING THEN Raise("KeyError")
    ELSE IF Len(PRICING[provider]) > 0 THEN Ret(PRICING[provider][1])
    ELSE Ret(NoPricingData)

\* The costs of a call priced by `pricing`
cost_breakdown_swapped(pricing, input_tokens, output_tokens, model) ==
    [present |-> TRUE, input_tokens |-> input_tokens, output_tokens |-> output_tokens,
     input_cost |-> input_tokens * pricing.input,
     output_cost |-> output_tokens * pricing.output,
     total_cost |-> input_tokens * pricing.input - output_tokens * pricing.output,
     model |-> model]

cost_breakdown(pricing, input_tokens, output_tokens, model) ==
    [present |-> TRUE, input_tokens |-> input_tokens, output_tokens |-> output_tokens,
     input_cost |-> input_tokens * pricing.input,
     output_cost |-> output_tokens * pricing.output,
     total_cost |-> input_tokens * pricing.input + output_tokens * pricing.output,
     model |-> model]

\* estimate_cost(input_text, output_text, model): (total_cost, breakdown), or
\* the exception that leaves the method
estimate_cost(provider, tokenizer, input_text, output_text, model) ==
    LET input_tokens == count_tokens(tokenizer, input_text)
        output_tokens == count_tokens(tokenizer, output_text)
        found == pricing_lookup(provider, model)
        pricing == IF found.raised THEN fallback_pricing(provider) ELSE found
    IN  IF pricing.raised THEN Raise(pricing.exc)
        ELSE IF pricing.val = NoPricingData THEN Ret([total_cost |-> 0, breakdown |-> NoBreakdown])
        ELSE LET b == cost_breakdown(pricing.val, input_tokens, output_tokens, model)
             IN  Ret([total_cost |-> b.total_cost, breakdown |-> b])

NoArgs == [input_len |-> 0, output_len |-> 0, model |-> "none"]

NoResult == Ret([total_cost |-> 0, breakdown |-> NoBreakdown])

MeterInit ==
    /\ pm_built = FALSE
    /\ pm_provider = <<>>
    /\ pm_tokenizer = FALSE
    /\ pm_args = NoArgs
    /\ pm_result = NoResult

\* PriceMeter(provider): tiktoken.get_encoding succeeds or fails
PriceMeterNew(provider, encoding_loaded) ==
    /\ pm_built' = TRUE
    /\ pm_provider' = Lower(provider)
    /\ pm_tokenizer' = encoding_loaded
    /\ pm_args' = NoArgs
    /\ pm_result' = NoResult
    /\ MeterOnly

\* meter.estimate_cost(input_text, output_text, model)
EstimateCost(input_text, output_text, model) ==
    /\ pm_built
    /\ pm_args' = [input_len |-> input_text.len, output_len |-> output_text.len, model |-> model]
    /\ pm_result' = estimate_cost(pm_provider, pm_tokenizer, input_text, output_text, model)
    /\ UNCHANGED <<pm_built, pm_provider, pm_tokenizer>>
    /\ MeterOnly

MeterNext ==
    \/ \E p \in ProviderInputs, enc \in BOOLEAN : PriceMeterNew(p, enc)
    \/ \E i \in Texts, o \in Texts, m \in ModelInputs : EstimateCost(i, o, m)


(***************************************************************************)
(* Tool dispatch by keyword                                                *)
(***************************************************************************)
\* execute_task: ["search", "find", "research", "look up"]
autogpt_search_keywords ==
    << <<"s", "e", "a", "r", "c", "h">>,
       <<"f", "i", "n", "d">>,
       <<"r", "e", "s", "e", "a", "r", "c", "h">>,
       <<"l", "o", "o", "k", " ", "u", "p">> >>

\* execute_task: ["calculate", "compute", "math"]
autogpt_calculate_keywords ==
    << <<"c", "a", "l", "c", "u", "l", "a", "t", "e">>,
       <<"c", "o", "m", "p", "u", "t", "e">>,
       <<"m", "a", "t", "h">> >>

\* execute_task: ["date", "time", "current"]
autogpt_date_keywords ==
    << <<"d", "a", "t", "e">>,
       <<"t", "i", "m", "e">>,
       <<"c", "u", "r", "r", "e", "n", "t">> >>

\* execute_step: ["search", "find", "look up", "information about"]
par_search_keywords ==
    << <<"s", "e", "a", "r", "c", "h">>,
       <<"f", "i", "n", "d">>,
       <<"l", "o", "o", "k", " ", "u", "p">>,
       <<"i", "n", "f", "o", "r", "m", "a", "t", "i", "o", "n", " ", "a", "b", "o", "u", "t">> >>

\* execute_step: ["calculate", "average", "math", "sum"]
par_calculate_keywords ==
    << <<"c", "a", "l", "c", "u", "l", "a", "t", "e">>,
       <<"a", "v", "e", "r", "a", "g", "e">>,
       <<"m", "a", "t", "h">>,
       <<"s", "u", "m">> >>

\* execute_step: ["date", "time", "current", "today"]
par_date_keywords ==
    << <<"d", "a", "t", "e">>,
       <<"t", "i", "m", "e">>,
       <<"c", "u", "r", "r", "e", "n", "t">>,
       <<"t", "o", "d", "a", "y">> >>

\* The pieces task texts are put together from: keywords in mixed case, words
\* that hold a keyword inside (summary, update) and words that hold none
TaskWords ==
    { <<"S", "e", "a", "r", "c", "h">>,
      <<"F", "I", "N", "D">>,
      <<"l", "o", "o", "k">>,
      <<" ">>,
      <<"u", "p">>,
      <<"C", "a", "l", "c", "u", "l", "a", "t", "e">>,
      <<"c", "o", "m", "p", "u", "t", "e">>,
      <<"a", "v", "e", "r", "a", "g", "e">>,
      <<"s", "u", "m", "m", "a", "r", "y">>,
      <<"u", "p", "d", "a", "t", "e">>,
      <<"T", "i", "m", "e">>,
      <<"t", "o", "d", "a", "y">>,
      <<"h", "e", "l", "l", "o">> }

\* The most pieces a task text is put together from
MaxTaskWords == 3

\* any(keyword in text for keyword in keywords)
AnyKeyword(text, keywords) ==
    \E k \in DOMAIN keywords : Contains(text, keywords[k])

\* The tool AutoGPTStyleAgent.execute_task calls for `task`
execute_task_tool_calc_first(task) ==
    LET task_lower == Lower(task)
    IN  IF AnyKeyword(task_lower, autogpt_calculate_keywords) THEN "calculator"
        ELSE IF AnyKeyword(task_lower, autogpt_search_keywords) THEN "web_search"
        ELSE IF AnyKeyword(task_lower, autogpt_date_keywords) THEN "current_date"
        ELSE "web_search"

execute_task_tool(task) ==
    LET task_lower == Lower(task)
    IN  IF AnyKeyword(task_lower, autogpt_search_keywords) THEN "web_search"
        ELSE IF AnyKeyword(task_lower, autogpt_calculate_keywords) THEN "calculator"
        ELSE IF AnyKeyword(task_lower, autogpt_date_keywords) THEN "current_date"
        ELSE "web_search"

\* The tool PlanActReflectAgent.execute_step calls for `step`
execute_step_tool(step) ==
    LET step_lower == Lower(step)
    IN  IF AnyKeyword(step_lower, par_search_keywords) THEN "web_search"
        ELSE IF AnyKeyword(step_lower, par_calculate_keywords) THEN "calculator"
        ELSE IF AnyKeyword(step_lower, par_date_keywords) THEN "current_date"
        ELSE "web_search"

DispatchInit ==
    /\ d_task = <<>>
    /\ d_words = 0
    /\ d_autogpt_tool = "none"
    /\ d_par_tool = "none"

\* The LLM's text grows by one piece
WriteTaskWord(w) ==
    /\ d_words < MaxTaskWords
    /\ d_task' = d_task \o w
    /\ d_words' = d_words + 1
    /\ d_autogpt_tool' = "none"
    /\ d_par_tool' = "none"
    /\ DispatchOnly

\* AutoGPTStyleAgent.execute_task(d_task), up to the choice of the tool
ExecuteTaskDispatch ==
    /\ d_autogpt_tool' = execute_task_tool(d_task)
    /\ UNCHANGED <<d_task, d_words, d_par_tool>>
    /\ DispatchOnly

\* PlanActReflectAgent.execute_step(d_task, n), up to the choice of the tool
ExecuteStepDispatch ==
    /\ d_par_tool' = execute_step_tool(d_task)
    /\ UNCHANGED <<d_task, d_words, d_autogpt_tool>>
    /\ DispatchOnly

DispatchNext ==
    \/ \E w \in TaskWords : WriteTaskWord(w)
    \/ ExecuteTaskDispatch
    \/ ExecuteStepDispatch

(***************************************************************************)
(* Structured output: the LLM's text and json.loads                        *)
(*                                                                         *)
(* A response is a sequence of segments: prose (text that is no JSON),     *)
(* white space, the fence markers ```json and ```, and JSON values.  Of a  *)
(* JSON object the model keeps the two keys the callers read.              *)
(***************************************************************************)
Seg(kind) == [seg |-> kind, json |-> "none", goal_achieved |-> "absent", steps |-> "absent"]

JsonObject(goal_achieved, steps) ==
    [seg |-> "value", json |-> "object", goal_achieved |-> goal_achieved, steps |-> steps]

JsonOther(kind) == [seg |-> "value", json |-> kind, goal_achieved |-> "absent", steps |-> "absent"]

\* The segments responses are put together from
ResponseSegments ==
    { Seg("prose"), Seg("space"), Seg("fence_json"), Seg("fence"),
      JsonObject("true", "list"), JsonObject("false", "absent"),
      JsonObject("absent", "number"), JsonObject("string", "null"),
      JsonOther("array"), JsonOther("number"), JsonOther("string"), JsonOther("null") }

\* The most segments a response is put together from
MaxSegments == 3

\* '```json' in response_text
HasJsonFence(text) == \E i \in DOMAIN text : text[i].seg = "fence_json"

\* response_text.split("```json")[1].split("```")[0]: what follows the first
\* ```json marker, up to the next ``` (which a second ```json marker also is)
FirstIndex(text, kinds) ==
    IF \E i \in DOMAIN text : text[i].seg \in kinds
    THEN CHOOSE i \in DOMAIN text :
            /\ text[i].seg \in kinds
            /\ \A j \in 1..(i - 1) : text[j].seg \notin kinds
    ELSE Len(text) + 1

FencedPart(text) ==
    LET after == SubSeq(text, FirstIndex(text, {"fence_json"}) + 1, Len(text))
    IN  SubSeq(after, 1, FirstIndex(after, {"fence_json", "fence"}) - 1)

json_text_of(response_text) ==
    IF HasJsonFence(response_text) THEN FencedPart(response_text) ELSE response_text

\* json.loads(text): the value when the text is one JSON value with white
\* space around it at most, JSONDecodeError otherwise
NoSpace(text) == SelectSeq(text, LAMBDA x : x.seg # "space")

json_loads(text) ==
    IF Len(NoSpace(text)) = 1 /\ NoSpace(text)[1].seg = "value"
    THEN Ret(NoSpace(text)[1])
    ELSE Raise("JSONDecodeError")

\* value.get(key): only a dict has the method
HasGet(value) == value.json = "object"

\* bool(x) of the value stored under a key, False when the key is absent
Truthy(field) == field \in {"true", "string", "list", "number"}

\* for ... in enumerate(steps, 1): a list or a string can be iterated
Iterable(field) == field \in {"list", "string"}

\* What the parsing functions return
Parsed(kind, goal_achieved) == [kind |-> kind, goal_achieved |-> goal_achieved]

\* An except clause lets through what it does not name
Handled(result, caught, fallback) ==
    IF result.raised /\ \E cls \in caught : IsInstance(result.exc, cls)
    THEN Ret(fallback)
    ELSE result

\* prompt_lab.json_schema, after client.chat returned `response`
json_schema(response) ==
    LET parsed == json_loads(response)
        body == IF parsed.raised THEN parsed ELSE Ret(Parsed("json_string", FALSE))
    IN  Handled(body, {"JSONDecodeError"}, Parsed("JSON PARSE ERROR", FALSE))

\* The try block shared by assess_goal_progress and reflect: json.loads, then
\* .get on the value for the printout, then return the value
LoadsAndGet(response) ==
    LET parsed == json_loads(json_text_of(response))
    IN  IF parsed.raised THEN parsed
        ELSE IF ~HasGet(parsed.val) THEN Raise("AttributeError")
        ELSE Ret(Parsed("dict", Truthy(parsed.val.goal_achieved)))

\* AutoGPTStyleAgent.assess_goal_progress, after self.llm.invoke returned
assess_goal_progress(response) ==
    Handled(LoadsAndGet(response), {"JSONDecodeError", "KeyError"}, Parsed("fallback", FALSE))

\* PlanActReflectAgent.reflect, after self.llm.invoke returned
reflect(response) ==
    Handled(LoadsAndGet(response), {"JSONDecodeError", "KeyError"}, Parsed("fallback", FALSE))

\* PlanActReflectAgent.plan, after self.llm.invoke returned: json.loads,
\* plan_data.get("steps", []), and the loop that prints the steps
plan(response) ==
    LET parsed == json_loads(json_text_of(response))
        body ==
            IF parsed.raised THEN parsed
            ELSE IF ~HasGet(parsed.val) THEN Raise("AttributeError")
            ELSE IF parsed.val.steps # "absent" /\ ~Iterable(parsed.val.steps) THEN Raise("TypeError")
            ELSE Ret(Parsed("steps", FALSE))
    IN  Handled(body, {"JSONDecodeError", "KeyError"}, Parsed("fallback_plan", FALSE))

NoParse == Ret(Parsed("none", FALSE))

ParseInit ==
    /\ ps_response = <<>>
    /\ ps_fn = "none"
    /\ ps_result = NoParse

\* The LLM's response grows by one segment
WriteSegment(seg) ==
    /\ Len(ps_response) < MaxSegments
    /\ ps_response' = Append(ps_response, seg)
    /\ ps_fn' = "none"
    /\ ps_result' = NoParse
    /\ ParseOnly

CallJsonSchema ==
    /\ ps_fn' = "json_schema"
    /\ ps_result' = json_schema(ps_response)
    /\ UNCHANGED ps_response
    /\ ParseOnly

CallAssessGoalProgress ==
    /\ ps_fn' = "assess_goal_progress"
    /\ ps_result' = assess_goal_progress(ps_response)
    /\ UNCHANGED ps_response
    /\ ParseOnly

CallPlan ==
    /\ ps_fn' = "plan"
    /\ ps_result' = plan(ps_response)
    /\ UNCHANGED ps_response
    /\ ParseOnly

CallReflect ==
    /\ ps_fn' = "reflect"
    /\ ps_result' = reflect(ps_response)
    /\ UNCHANGED ps_response
    /\ ParseOnly

ParseNext ==
    \/ \E seg \in ResponseSegments : WriteSegment(seg)
    \/ CallJsonSchema
    \/ CallAssessGoalProgress
    \/ CallPlan
    \/ CallReflect

(***************************************************************************)
(* The Auto-GPT style loop                                                 *)
(***************************************************************************)
\* The most iterations an agent is built for (the demo builds it for 5)
MaxIterations == 3

\* cost_limit = 0.10 dollars, in Haiku input tokens of 0.25e-6 dollar
DefaultCostLimit == 400000

\* The cost limits an agent is built with
CostLimits == {0, 150, DefaultCostLimit}

\* len(assessment_prompt) without the goal and the context it interpolates
AssessTemplateLen == 368

\* len(task_prompt) without the five values it interpolates
TaskTemplateLen == 341

\* The characters the interpolated values and response.content add to a
\* prompt: the context alone is 21 characters or more
PromptExtras == {21, 61}

\* estimate_cost(text): len(text) // 4 tokens, each at cost_per_token
agent_estimate_cost_refund(text_len) == 0 - (text_len \div 4)

agent_estimate_cost(text_len) == text_len \div 4

\* What self.llm.invoke gives assess_goal_progress: a response, or an exception
AssessResponses ==
    { <<Seg("prose")>>,
      <<Seg("fence_json"), Seg("space"), JsonObject("true", "absent"), Seg("space"), Seg("fence")>>,
      <<JsonObject("false", "absent")>>,
      <<JsonOther("array")>> }

\* What self.llm.invoke gives generate_next_task
TaskResponses ==
    { <<" ", "S", "e", "a", "r", "c", "h", " ">>,
      <<"c", "o", "m", "p", "u", "t", "e">>,
      <<"T", "i", "m", "e">>,
      <<"h", "e", "l", "l", "o">> }

\* str.strip() of blanks
RECURSIVE LStrip(_)
LStrip(s) == IF s # <<>> /\ Head(s) = " " THEN LStrip(Tail(s)) ELSE s

RECURSIVE RStrip(_)
RStrip(s) == IF s # <<>> /\ s[Len(s)] = " " THEN RStrip(SubSeq(s, 1, Len(s) - 1)) ELSE s

Strip(s) == RStrip(LStrip(s))

NoAssessment == Parsed("none", FALSE)

NoRunResult ==
    [returned |-> FALSE, iterations |-> 0, total_actions |-> 0, estimated_cost |-> 0,
     completed |-> FALSE]

LoopInit ==
    /\ ag_pc = "unbuilt"
    /\ ag_cost_limit = 0
    /\ ag_max_iterations = 0
    /\ ag_estimated_cost = 0
    /\ ag_iteration = 0
    /\ ag_actions_taken = <<>>
    /\ ag_facts_learned = {}
    /\ ag_assessment = NoAssessment
    /\ ag_next_task = <<>>
    /\ ag_llm_calls = 0
    /\ ag_exit = "none"
    /\ ag_result = NoRunResult

\* AutoGPTStyleAgent(cost_limit, max_iterations), then run_autonomous_loop(goal)
\* up to its while statement
StartAutonomousLoop(cost_limit, max_iterations) ==
    /\ ag_pc = "unbuilt"
    /\ ag_pc' = "while"
    /\ ag_cost_limit' = cost_limit
    /\ ag_max_iterations' = max_iterations
    /\ ag_estimated_cost' = 0
    /\ ag_iteration' = 0
    /\ ag_actions_taken' = <<>>
    /\ ag_facts_learned' = {}
    /\ UNCHANGED <<ag_assessment, ag_next_task, ag_llm_calls, ag_exit, ag_result>>
    /\ LoopOnly

\* while iteration < self.max_iterations
while_continues_inclusive == ag_iteration <= ag_max_iterations

while_continues == ag_iteration < ag_max_iterations

\* if self.estimated_cost > self.cost_limit
cost_limit_reached == ag_estimated_cost > ag_cost_limit

\* The while test, iteration += 1 and the cost check
WhileTest ==
    /\ ag_pc = "while"
    /\ IF while_continues
       THEN /\ ag_iteration' = ag_iteration + 1
            /\ IF cost_limit_reached
               THEN ag_pc' = "final" /\ ag_exit' = "cost"
               ELSE ag_pc' = "assess" /\ ag_exit' = ag_exit
       ELSE /\ ag_iteration' = ag_iteration
            /\ ag_pc' = "final"
            /\ ag_exit' = "bound"
    /\ UNCHANGED <<ag_cost_limit, ag_max_iterations, ag_estimated_cost, ag_actions_taken,
                   ag_facts_learned, ag_assessment, ag_next_task, ag_llm_calls, ag_result>>
    /\ LoopOnly

\* self.llm.invoke raises: the exception leaves run_autonomous_loop
LLMFails ==
    /\ ag_pc \in {"assess", "generate", "final"}
    /\ ag_pc' = "raised"
    /\ ag_llm_calls' = ag_llm_calls + 1
    /\ UNCHANGED <<ag_cost_limit, ag_max_iterations, ag_estimated_cost, ag_iteration,
                   ag_actions_taken, ag_facts_learned, ag_assessment, ag_next_task,
                   ag_exit, ag_result>>
    /\ LoopOnly

\* assessment = self.assess_goal_progress(goal), and the goal_achieved test
AssessStep(response, extra) ==
    /\ ag_pc = "assess"
    /\ ag_llm_calls' = ag_llm_calls + 1
    /\ ag_estimated_cost' = ag_estimated_cost + agent_estimate_cost(AssessTemplateLen + extra)
    /\ LET assessment == assess_goal_progress(response)
       IN  IF assessment.raised
           THEN ag_pc' = "raised" /\ UNCHANGED <<ag_assessment, ag_exit>>
           ELSE /\ ag_assessment' = assessment.val
                /\ IF assessment.val.goal_achieved
                   THEN ag_pc' = "final" /\ ag_exit' = "goal"
                   ELSE ag_pc' = "generate" /\ ag_exit' = ag_exit
    /\ UNCHANGED <<ag_cost_limit, ag_max_iterations, ag_iteration, ag_actions_taken,
                   ag_facts_learned, ag_next_task, ag_result>>
    /\ LoopOnly

\* next_task = self.generate_next_task(goal, assessment)
GenerateStep(response, extra) ==
    /\ ag_pc = "generate"
    /\ ag_llm_calls' = ag_llm_calls + 1
    /\ ag_estimated_cost' = ag_estimated_cost + agent_estimate_cost(TaskTemplateLen + extra)
    /\ ag_next_task' = Strip(response)
    /\ ag_pc' = "execute"
    /\ UNCHANGED <<ag_cost_limit, ag_max_iterations, ag_iteration, ag_actions_taken,
                   ag_facts_learned, ag_assessment, ag_exit, ag_result>>
    /\ LoopOnly

\* execution_result = self.execute_task(next_task), and the update of
\* facts_learned; tool.func returns its result or raises
ExecuteStep(tool_raises) ==
    /\ ag_pc = "execute"
    /\ LET execution_result ==
               IF tool_raises
               THEN [tool_used |-> "None", success |-> FALSE]
               ELSE [tool_used |-> execute_task_tool(ag_next_task), success |-> TRUE]
       IN  /\ ag_actions_taken' = Append(ag_actions_taken, execution_result)
           /\ ag_facts_learned' =
                 IF execution_result.success
                 THEN ag_facts_learned \cup {ag_iteration}
                 ELSE ag_facts_learned
    /\ ag_pc' = "while"
    /\ UNCHANGED <<ag_cost_limit, ag_max_iterations, ag_estimated_cost, ag_iteration,
                   ag_assessment, ag_next_task, ag_llm_calls, ag_exit, ag_result>>
    /\ LoopOnly

\* final_assessment = self.assess_goal_progress(goal), and the return
FinalStep(response, extra) ==
    /\ ag_pc = "final"
    /\ ag_llm_calls' = ag_llm_calls + 1
    /\ ag_estimated_cost' = ag_estimated_cost + agent_estimate_cost(AssessTemplateLen + extra)
    /\ LET final_assessment == assess_goal_progress(response)
       IN  IF final_assessment.raised
           THEN ag_pc' = "raised" /\ UNCHANGED ag_result
           ELSE /\ ag_pc' = "done"
                /\ ag_result' =
                      [returned |-> TRUE, iterations |-> ag_iteration,
                       total_actions |-> Len(ag_actions_taken),
                       estimated_cost |-> ag_estimated_cost',
                       completed |-> final_assessment.val.goal_achieved]
    /\ UNCHANGED <<ag_cost_limit, ag_max_iterations, ag_iteration, ag_actions_taken,
                   ag_facts_learned, ag_assessment, ag_next_task, ag_exit>>
    /\ LoopOnly

LoopNext ==
    \/ \E c \in CostLimits, m \in 0..MaxIterations : StartAutonomousLoop(c, m)
    \/ WhileTest
    \/ LLMFails
    \/ \E r \in AssessResponses, x \in PromptExtras : AssessStep(r, x)
    \/ \E r \in TaskResponses, x \in PromptExtras : GenerateStep(r, x)
    \/ \E f \in BOOLEAN : ExecuteStep(f)
    \/ \E r \in AssessResponses, x \in PromptExtras : FinalStep(r, x)

(***************************************************************************)
(* The string-returning tools                                              *)
(*                                                                         *)
(* Each tool is a pure function of its argument and of what the world      *)
(* under it does (the search service, the network, the file system); what  *)
(* it returns is named by the fixed head of the string.                    *)
(***************************************************************************)
NoToolCall == [tool |-> "none"]

\* --- math_calculator_tool (agent_skeleton/tools.py) ---
Digits == {"0", "1", "2", "3", "4", "5", "6", "7", "8", "9"}

allowed_chars == Digits \cup {"+", "-", "*", "/", ".", "(", ")", " "}

\* The pieces an expression is put together from, and how many of them
CalcPieces == {<<"7">>, <<"0">>, <<"/">>, <<"+">>, <<" ">>, <<"x">>, <<"(">>, <<"S", "q", "r", "t">>}

MaxCalcPieces == 3

RECURSIVE ExpressionsOf(_)
ExpressionsOf(n) ==
    IF n = 0 THEN {<<>>}
    ELSE LET shorter == ExpressionsOf(n - 1)
         IN  shorter \cup {e \o p : e \in shorter, p \in CalcPieces}

Expressions == ExpressionsOf(MaxCalcPieces)

\* The first index at or after i of an element of s that is not in skipped,
\* Len(s) + 1 if there is none
RECURSIVE Skip(_, _, _)
Skip(s, skipped, i) ==
    IF i <= Len(s) /\ s[i] \in skipped THEN Skip(s, skipped, i + 1) ELSE i

\* re.search(r'sqrt\s*\(?(\d+\.?\d*)\)?', s) finds a match
SqrtMatch(s) ==
    \E i \in 1..Len(s) :
        /\ i + 3 <= Len(s)
        /\ SubSeq(s, i, i + 3) = <<"s", "q", "r", "t">>
        /\ LET j == Skip(s, {" "}, i + 4)
               k == IF j <= Len(s) /\ s[j] = "(" THEN j + 1 ELSE j
           IN  k <= Len(s) /\ s[k] \in Digits

\* Python's tokenizer on the characters of the expressions above.  A run of
\* digits is a decimal integer literal: zero, a number, or one Python
\* rejects for its leading zero.
RECURSIVE Lex(_, _)
Lex(s, i) ==
    LET after == Skip(s, Digits, i)
        run == SubSeq(s, i, after - 1)
        number_token ==
            IF \A k \in 1..Len(run) : run[k] = "0" THEN "zero"
            ELSE IF run[1] = "0" THEN "bad_number"
            ELSE "number"
    IN  IF i > Len(s) THEN <<>>
        ELSE IF s[i] = " " THEN Lex(s, i + 1)
        ELSE IF s[i] \in Digits THEN <<number_token>> \o Lex(s, after)
        ELSE IF s[i] = "/" /\ i < Len(s) /\ s[i + 1] = "/" THEN <<"//">> \o Lex(s, i + 2)
        ELSE <<s[i]>> \o Lex(s, i + 1)

\* Python's grammar on those tokens: operands with unary plus signs, joined
\* by + / and //.  An opening bracket is never closed in these expressions.
RECURSIVE WellFormed(_, _, _)
WellFormed(toks, i, operand_expected) ==
    IF i > Len(toks) THEN ~operand_expected
    ELSE IF operand_expected
         THEN \/ toks[i] = "+" /\ WellFormed(toks, i + 1, TRUE)
              \/ toks[i] \in {"zero", "number"} /\ WellFormed(toks, i + 1, FALSE)
    ELSE toks[i] \in {"+", "/", "//"} /\ WellFormed(toks, i + 1, TRUE)

\* eval(expression): SyntaxError when compiling; ZeroDivisionError when
\* running, if the operand right of a / or //, behind its plus signs, is zero
python_eval(expression) ==
    LET toks == Lex(expression, 1)
        divides_by_zero ==
            \E i \in 1..Len(toks) :
                /\ toks[i] \in {"/", "//"}
                /\ Skip(toks, {"+"}, i + 1) <= Len(toks)
                /\ toks[Skip(toks, {"+"}, i + 1)] = "zero"
    IN  IF ~WellFormed(toks, 1, TRUE) THEN Raise("SyntaxError")
        ELSE IF divides_by_zero THEN Raise("ZeroDivisionError")
        ELSE Ret("value")

math_calculator_tool(expression) ==
    LET stripped == Strip(expression)
        body ==
            IF Contains(Lower(stripped), <<"s", "q", "r", "t">>) /\ SqrtMatch(Lower(stripped))
            THEN Ret("sqrt =")
            ELSE IF \A i \in 1..Len(stripped) : stripped[i] \in allowed_chars
            THEN LET result == python_eval(stripped)
                 IN  IF result.raised THEN result ELSE Ret("expression =")
            ELSE Ret("Error: Only basic math operations")
    IN  Handled(Handled(body, {"ZeroDivisionError"}, "Error: Division by zero"),
                {"Exception"}, "Math error")

\* --- web_search_tool (agent_skeleton/tools.py) ---
\* What DDGS().text does: it raises, or returns results whose 'body' is a
\* string, is missing, or is None
DDGSOutcomes ==
    {[exc |-> "none", results |-> <<>>],
     [exc |-> "none", results |-> <<"str", "absent">>],
     [exc |-> "none", results |-> <<"str", "None">>],
     [exc |-> "RatelimitException", results |-> <<>>],
     [exc |-> "Timeout", results |-> <<>>]}

web_search_tool(ddgs) ==
    LET body ==
            IF ddgs.exc # "none" THEN Raise(ddgs.exc)
            ELSE IF ddgs.results = <<>> THEN Ret("No search results found")
            ELSE IF \E i \in 1..Len(ddgs.results) : ddgs.results[i] = "None"
            THEN Raise("TypeError")
            ELSE Ret("formatted results")
    IN  Handled(body, {"Exception"}, "Search error")

\* --- HTTPClient (agent_swiss_army/tools/http_tool.py) ---
\* A value read with dict.get: whether the key is there, whether the value
\* is a string, and the string
Field(present, is_str, text) == [present |-> present, is_str |-> is_str, text |-> text]

allowed_domains ==
    {<<"a", "p", "i", ".", "g", "i", "t", "h", "u", "b", ".", "c", "o", "m">>,
     <<"j", "s", "o", "n", "p", "l", "a", "c", "e", "h", "o", "l", "d", "e", "r", ".", "t", "y", "p", "i", "c", "o", "d", "e", ".", "c", "o", "m">>,
     <<"h", "t", "t", "p", "b", "i", "n", ".", "o", "r", "g">>,
     <<"a", "p", "i", ".", "o", "p", "e", "n", "w", "e", "a", "t", "h", "e", "r", "m", "a", "p", ".", "o", "r", "g">>,
     <<"a", "p", "i", ".", "e", "x", "c", "h", "a", "n", "g", "e", "r", "a", "t", "e", "-", "a", "p", "i", ".", "c", "o", "m">>,
     <<"r", "e", "s", "t", "c", "o", "u", "n", "t", "r", "i", "e", "s", ".", "c", "o", "m">>}

\* str.upper(), character by character
Upper(s) ==
    [i \in 1..Len(s) |->
        IF \E u \in DOMAIN UpperToLower : UpperToLower[u] = s[i]
        THEN CHOOSE u \in DOMAIN UpperToLower : UpperToLower[u] = s[i]
        ELSE s[i]]

\* The index of the first character of s that is in stops, Len(s) + 1 if none
RECURSIVE FirstOf(_, _, _)
FirstOf(s, stops, i) ==
    IF i > Len(s) \/ s[i] \in stops THEN i ELSE FirstOf(s, stops, i + 1)

\* urlparse(url).netloc: what follows "scheme://" up to the first / ? or #
urlparse_netloc(url) ==
    LET scheme_chars ==
            DOMAIN UpperToLower \cup {UpperToLower[u] : u \in DOMAIN UpperToLower}
                \cup Digits \cup {"+", "-", "."}
        colon == FirstOf(url, {":"}, 1)
        has_scheme ==
            /\ 1 < colon /\ colon <= Len(url)
            /\ \A i \in 1..(colon - 1) : url[i] \in scheme_chars
        rest == IF has_scheme THEN SubSeq(url, colon + 1, Len(url)) ELSE url
    IN  IF Len(rest) >= 2 /\ rest[1] = "/" /\ rest[2] = "/"
        THEN SubSeq(rest, 3, FirstOf(rest, {"/", "?", "#"}, 3) - 1)
        ELSE <<>>

\* HTTPClient._is_url_allowed; its bare except answers False for a url that
\* is no string
is_url_allowed(url) ==
    IF ~url.is_str THEN FALSE
    ELSE LET netloc == Lower(urlparse_netloc(url.text))
             domain == SubSeq(netloc, 1, FirstOf(netloc, {":"}, 1) - 1)
         IN  domain \in allowed_domains

allowed_methods == {<<"G", "E", "T">>, <<"P", "O", "S", "T">>, <<"P", "U", "T">>, <<"D", "E", "L", "E", "T", "E">>, <<"P", "A", "T", "C", "H">>}

HttpUrls ==
    {<<"h", "t", "t", "p", "s", ":", "/", "/", "h", "t", "t", "p", "b", "i", "n", ".", "o", "r", "g", "/", "g", "e", "t">>,
     <<"h", "t", "t", "p", "s", ":", "/", "/", "H", "T", "T", "P", "B", "I", "N", ".", "O", "R", "G", ":", "4", "4", "3", "/", "g", "e", "t">>,
     <<"h", "t", "t", "p", "s", ":", "/", "/", "e", "v", "i", "l", ".", "c", "o", "m", "/">>,
     <<"h", "t", "t", "p", "s", ":", "/", "/", "h", "t", "t", "p", "b", "i", "n", ".", "o", "r", "g", ":", "x", "@", "e", "v", "i", "l", ".", "c", "o", "m", "/">>,
     <<"h", "t", "t", "p", "b", "i", "n", ".", "o", "r", "g", "/", "g", "e", "t">>}

\* The host requests.request(method, url) connects to: the netloc without
\* its userinfo (what precedes the last "@") and without its port, lowered
request_host(url) ==
    LET netloc == urlparse_netloc(url)
        at == CHOOSE i \in 0..Len(netloc) :
                  /\ i = 0 \/ netloc[i] = "@"
                  /\ \A j \in (i + 1)..Len(netloc) : netloc[j] # "@"
        hostport == SubSeq(netloc, at + 1, Len(netloc))
    IN  Lower(SubSeq(hostport, 1, FirstOf(hostport, {":"}, 1) - 1))

\* What _parse_request_input returns for the input: the JSON value of a JSON
\* text, the dict of the "key: value" lines, or url and GET for a bare URL
NonDicts ==
    {[json |-> "array", truthy |-> TRUE], [json |-> "array", truthy |-> FALSE],
     [json |-> "number", truthy |-> TRUE], [json |-> "null", truthy |-> FALSE]}

HttpRequests ==
    LET absent == Field(FALSE, FALSE, <<>>)
        not_str == Field(TRUE, FALSE, <<>>)
        str(text) == Field(TRUE, TRUE, text)
    IN  {[json |-> v.json, truthy |-> v.truthy, url |-> absent, method |-> absent,
          headers |-> "absent"] : v \in NonDicts}
        \cup {[json |-> "object", truthy |-> FALSE, url |-> absent, method |-> absent,
               headers |-> "absent"]}
        \cup {[json |-> "object", truthy |-> TRUE, url |-> u, method |-> m, headers |-> h] :
                u \in {str(x) : x \in HttpUrls} \cup {absent, not_str},
                m \in {absent, not_str, str(<<"p", "o", "s", "t">>), str(<<"T", "R", "A", "C", "E">>)},
                h \in {"absent", "dict", "number"}}

\* _execute_request, by what requests.request does: it raises, or answers
\* with a content-length within ("ok") or over max_response_size
execute_request(network) ==
    IF network \in {"ConnectionError", "Timeout"} THEN Raise(network)
    ELSE IF network = "too_large" THEN Raise("ValueError")
    ELSE Ret("response")

\* The except clause of make_request
make_request_except_json_only == {"JSONDecodeError"}

make_request_except == {"Exception"}

make_request(request_data, network) ==
    LET body ==
            IF ~request_data.truthy THEN Ret("Error: Invalid request format")
            ELSE IF request_data.json # "object" THEN Raise("AttributeError")
            ELSE IF request_data.method.present /\ ~request_data.method.is_str
            THEN Raise("AttributeError")
            ELSE IF ~is_url_allowed(request_data.url) THEN Ret("Error: URL not allowed")
            ELSE IF request_data.method.present
                    /\ Upper(request_data.method.text) \notin allowed_methods
            THEN Ret("Error: HTTP method not allowed")
            ELSE IF request_data.headers = "number" THEN Raise("TypeError")
            ELSE LET response == execute_request(network)
                 IN  IF response.raised THEN response ELSE Ret("HTTP Status")
    IN  Handled(body, make_request_except, "HTTP request failed")

\* --- EmailSender (agent_swiss_army/tools/email.py) ---
\* What _parse_email_request returns for the input.  A field is "absent",
\* "empty" (the empty string), "number" (a JSON number other than 0) or the
\* text itself.
EmailRequests ==
    {[json |-> v.json, truthy |-> v.truthy, to |-> "absent", subject |-> "absent",
      body |-> "absent"] : v \in NonDicts}
    \cup {[json |-> "object", truthy |-> FALSE, to |-> "absent", subject |-> "absent",
           body |-> "absent"]}
    \cup {[json |-> "object", truthy |-> TRUE, to |-> t, subject |-> s, body |-> b] :
            t \in {"absent", "empty", "alice@example.com"},
            s \in {"absent", "Report", "Hello"},
            b \in {"absent", "number", "text"}}

\* not email_data.get(key)
Falsy(field) == field \in {"absent", "empty"}

\* The seconds of the clock
MaxClock == 1

\* _mock_send_email: open(filepath, 'w') succeeds ("ok") or raises; the file
\* is written before the message is formatted, and len() of a number raises
mock_send_email(email_data, file) ==
    IF file = "OSError" THEN [result |-> Raise("OSError"), written |-> FALSE]
    ELSE IF email_data.body = "number" THEN [result |-> Raise("TypeError"), written |-> TRUE]
    ELSE [result |-> Ret("Email sent successfully (MOCK MODE)"), written |-> TRUE]

send_email(email_data, file) ==
    LET notsent(result) == [result |-> result, written |-> FALSE]
        body ==
            IF ~email_data.truthy THEN notsent(Ret("Error: Invalid email format"))
            ELSE IF email_data.json # "object" THEN notsent(Raise("AttributeError"))
            ELSE IF Falsy(email_data.to) THEN notsent(Ret("Error: Email recipient (to) is required"))
            ELSE IF Falsy(email_data.subject) THEN notsent(Ret("Error: Email subject is required"))
            ELSE IF Falsy(email_data.body) THEN notsent(Ret("Error: Email body is required"))
            ELSE mock_send_email(email_data, file)
    IN  [result |-> Handled(body.result, {"Exception"}, "Email sending failed"),
         written |-> body.written]

\* list_sent_emails: the lines after the heading, one for each file of the
\* outbox, the latest file name first; each line shows the subject
list_sent_emails(outbox) ==
    [k \in 1..Cardinality(DOMAIN outbox) |->
        outbox[CHOOSE s \in DOMAIN outbox :
                   Cardinality({t \in DOMAIN outbox : t > s}) = k - 1]]

MaxSends == 2

\* --- the calls ---
ToolsInit ==
    /\ tl_call = NoToolCall
    /\ tl_result = Ret("none")
    /\ em_now = 0
    /\ em_outbox = <<>>
    /\ em_sent = 0

\* One call at a time: the agent calls a tool when it holds no unread result
CallWebSearch ==
    /\ tl_call = NoToolCall
    /\ \E ddgs \in DDGSOutcomes :
          /\ tl_call' = [tool |-> "web_search_tool", ddgs |-> ddgs]
          /\ tl_result' = web_search_tool(ddgs)
    /\ UNCHANGED <<em_now, em_outbox, em_sent>>
    /\ ToolsOnly

CallCalculator ==
    /\ tl_call = NoToolCall
    /\ \E expression \in Expressions :
          /\ tl_call' = [tool |-> "math_calculator_tool", expression |-> expression]
          /\ tl_result' = math_calculator_tool(expression)
    /\ UNCHANGED <<em_now, em_outbox, em_sent>>
    /\ ToolsOnly

CallMakeRequest ==
    /\ tl_call = NoToolCall
    /\ \E request_data \in HttpRequests,
          network \in {"ok", "too_large", "ConnectionError", "Timeout"} :
          /\ tl_call' = [tool |-> "make_request", request_data |-> request_data,
                         network |-> network]
          /\ tl_result' = make_request(request_data, network)
    /\ UNCHANGED <<em_now, em_outbox, em_sent>>
    /\ ToolsOnly

\* The file of an email is named by the second it is sent in
CallSendEmail ==
    /\ tl_call = NoToolCall
    /\ em_sent < MaxSends
    /\ \E email_data \in EmailRequests, file \in {"ok", "OSError"} :
          /\ tl_call' = [tool |-> "send_email", email_data |-> email_data, file |-> file]
          /\ tl_result' = send_email(email_data, file).result
          /\ em_outbox' =
                 IF send_email(email_data, file).written
                 THEN [s \in DOMAIN em_outbox \cup {em_now} |->
                          IF s = em_now THEN email_data.subject ELSE em_outbox[s]]
                 ELSE em_outbox
          /\ em_sent' =
                 IF send_email(email_data, file).result = Ret("Email sent successfully (MOCK MODE)")
                 THEN em_sent + 1
                 ELSE em_sent
    /\ UNCHANGED em_now
    /\ ToolsOnly

\* The "list" operation of the email tool
CallListSentEmails ==
    /\ tl_call = NoToolCall
    /\ tl_call' = [tool |-> "list_sent_emails"]
    /\ tl_result' = IF list_sent_emails(em_outbox) = <<>>
                    THEN Ret("No emails found in outbox")
                    ELSE Ret("Email Outbox")
    /\ UNCHANGED <<em_now, em_outbox, em_sent>>
    /\ ToolsOnly

\* A second passes between two calls
Tick ==
    /\ tl_call = NoToolCall
    /\ em_now < MaxClock
    /\ em_now' = em_now + 1
    /\ UNCHANGED <<tl_call, tl_result, em_outbox, em_sent>>
    /\ ToolsOnly

\* The caller takes the string and goes on
ToolReturns ==
    /\ tl_call # NoToolCall
    /\ ~tl_result.raised
    /\ tl_call' = NoToolCall
    /\ tl_result' = Ret("none")
    /\ UNCHANGED <<em_now, em_outbox, em_sent>>
    /\ ToolsOnly

ToolsNext ==
    \/ CallWebSearch
    \/ CallCalculator
    \/ CallMakeRequest
    \/ CallSendEmail
    \/ CallListSentEmails
    \/ Tick
    \/ ToolReturns

(***************************************************************************)
(* Construction from the environment                                       *)
(***************************************************************************)
EnvVariables ==
    {"OPENAI_API_KEY", "ANTHROPIC_API_KEY", "GOOGLE_API_KEY", "TAVILY_API_KEY", "REDIS_URL"}

\* os.getenv(name): None when unset, else the string, which may be empty
EnvValues == {"unset", "empty", "set"}

getenv(name) == env[name]

\* `not api_key`: true of None and of the empty string
not_key_none_only(value) == value = "unset"

not_key(value) == value \in {"unset", "empty"}

\* The variable LLMClient.__init__ reads for a provider, "none" for a
\* provider it does not support
ProviderVariable(provider) ==
    IF Lower(provider) = s_openai THEN "OPENAI_API_KEY"
    ELSE IF Lower(provider) = s_anthropic THEN "ANTHROPIC_API_KEY"
    ELSE IF Lower(provider) = s_google THEN "GOOGLE_API_KEY"
    ELSE "none"

\* LLMClient.__init__
LLMClient_init(provider) ==
    IF ProviderVariable(provider) = "none" THEN Raise("ValueError")
    ELSE IF not_key(getenv(ProviderVariable(provider))) THEN Raise("ValueError")
    ELSE Ret("LLMClient")

\* WebSearchTool.__init__(api_key): api_key or os.getenv("TAVILY_API_KEY")
WebSearchTool_init(api_key) ==
    LET key == IF not_key(api_key) THEN getenv("TAVILY_API_KEY") ELSE api_key
    IN  IF not_key(key) THEN Raise("ValueError") ELSE Ret("WebSearchTool")

\* create_search_tool(): a mock tool without the key
create_search_tool ==
    LET api_key == getenv("TAVILY_API_KEY")
    IN  IF not_key(api_key) THEN Ret("mock web_search Tool")
        ELSE LET search_tool == WebSearchTool_init(api_key)
             IN  IF search_tool.raised THEN search_tool ELSE Ret("web_search Tool")

\* MemoryManager._create_chat_history(): Redis when REDIS_URL is given and
\* the redis package can be imported, a file otherwise
create_chat_history(redis_import) ==
    IF ~not_key(getenv("REDIS_URL")) /\ redis_import = "ok"
    THEN Ret("RedisChatMessageHistory")
    ELSE Ret("FileChatMessageHistory")

NoConstruction == [fn |-> "none", uses |-> "none"]

EnvInit ==
    /\ env = [name \in EnvVariables |-> "unset"]
    /\ cf_call = NoConstruction
    /\ cf_result = Ret("none")
    /\ cf_used = FALSE

\* The shell sets or unsets a variable before the program is started again
SetEnv(name, value) ==
    /\ env' = [env EXCEPT ![name] = value]
    /\ cf_call' = NoConstruction
    /\ cf_result' = Ret("none")
    /\ cf_used' = FALSE
    /\ EnvOnly

ConstructLLMClient(provider) ==
    /\ cf_call' = [fn |-> "LLMClient", uses |-> ProviderVariable(provider)]
    /\ cf_result' = LLMClient_init(provider)
    /\ cf_used' = FALSE
    /\ UNCHANGED env
    /\ EnvOnly

\* WebSearchTool() and WebSearchTool(api_key): with a key given the
\* environment is not read
ConstructWebSearchTool(api_key) ==
    /\ cf_call' = [fn |-> "WebSearchTool",
                   uses |-> IF not_key(api_key) THEN "TAVILY_API_KEY" ELSE "none"]
    /\ cf_result' = WebSearchTool_init(api_key)
    /\ cf_used' = FALSE
    /\ UNCHANGED env
    /\ EnvOnly

CreateSearchTool ==
    /\ cf_call' = [fn |-> "create_search_tool", uses |-> "TAVILY_API_KEY"]
    /\ cf_result' = create_search_tool
    /\ cf_used' = FALSE
    /\ UNCHANGED env
    /\ EnvOnly

CreateChatHistory(redis_import) ==
    /\ cf_call' = [fn |-> "_create_chat_history", uses |-> "REDIS_URL"]
    /\ cf_result' = create_chat_history(redis_import)
    /\ cf_used' = FALSE
    /\ UNCHANGED env
    /\ EnvOnly

\* The program goes on with the object it was given and makes a request
\* with it; a constructor that raised gave it none
UseConstructed ==
    /\ cf_call # NoConstruction
    /\ ~cf_result.raised
    /\ ~cf_used
    /\ cf_used' = TRUE
    /\ UNCHANGED <<env, cf_call, cf_result>>
    /\ EnvOnly

EnvNext ==
    \/ \E name \in EnvVariables, value \in EnvValues : SetEnv(name, value)
    \/ \E provider \in ProviderInputs : ConstructLLMClient(provider)
    \/ \E api_key \in EnvValues : ConstructWebSearchTool(api_key)
    \/ CreateSearchTool
    \/ \E redis_import \in {"ok", "ImportError"} : CreateChatHistory(redis_import)
    \/ UseConstructed

(***************************************************************************)
(* Function calls                                                          *)
(***************************************************************************)
NoCall == [fn |-> "none"]

FnInit ==
    /\ fc_call = NoCall
    /\ fc_result = Ret("none")

\* The caller takes the result, or the exception ends the call
FnReturns ==
    /\ fc_call # NoCall
    /\ fc_call' = NoCall
    /\ fc_result' = Ret("none")
    /\ FnOnly

\* --- LLMClient.chat (model_client.py) ---
MaxMessages == 3

\* What the provider's SDK is given: the system parameter and the messages,
\* as sequences of the messages they were taken from
chat(provider, messages, api) ==
    LET body ==
            IF provider = "openai"
            THEN Ret([system |-> <<>>, messages |-> messages])
            ELSE IF messages = <<>> THEN Raise("IndexError")
            ELSE IF provider = "anthropic"
            THEN IF messages[1].role = "system"
                 THEN Ret([system |-> <<messages[1]>>, messages |-> Tail(messages)])
                 ELSE Ret([system |-> <<>>, messages |-> messages])
            ELSE Ret([system |-> <<>>, messages |-> <<messages[Len(messages)]>>])
        called == IF ~body.raised /\ api # "ok" THEN Raise(api) ELSE body
    IN  IF called.raised /\ IsInstance(called.exc, "Exception")
        THEN Raise("Exception")
        ELSE called

CallChat ==
    /\ fc_call = NoCall
    /\ \E provider \in {"openai", "anthropic", "google"},
          n \in 0..MaxMessages,
          api \in {"ok", "Timeout"} :
          \E messages \in [1..n -> [role : {"system", "user", "assistant"},
                                    content : {"hello", "context"}]] :
              /\ fc_call' = [fn |-> "chat", provider |-> provider, messages |-> messages,
                             api |-> api]
              /\ fc_result' = chat(provider, messages, api)
    /\ FnOnly

ChatNext == CallChat \/ FnReturns

(***************************************************************************)
(* SimpleMemory: two instances opened on the same file                     *)
(*                                                                         *)
(* A conversation is named by the instance that added it and its number.   *)
(* _save_memory is two steps, as open(..., 'w') empties the file before    *)
(* json.dump fills it.                                                     *)
(***************************************************************************)
Instances == {1, 2}

MaxAdds == 2

\* _load_memory: the conversations of the file, or the default structure
\* when the file is missing or holds no valid JSON
load_memory(file) ==
    IF file.exists /\ file.valid THEN file.conversations ELSE <<>>

\* What json.dump leaves in the file: self.memory, whatever the file held
save_memory_merging(memory, file) ==
    file.conversations \o
        SelectSeq(memory, LAMBDA c : \A k \in DOMAIN file.conversations : file.conversations[k] # c)

save_memory(memory, file) == memory

MemInit ==
    /\ sm_file = [exists |-> FALSE, valid |-> FALSE, conversations |-> <<>>]
    /\ sm_inst = [i \in Instances |->
                    [pc |-> "unopened", memory |-> <<>>, loaded |-> <<>>, added |-> 0,
                     overlapped |-> FALSE]]

\* SimpleMemory.__init__
OpenMemory(i) ==
    /\ sm_inst[i].pc = "unopened"
    /\ sm_inst' = [sm_inst EXCEPT ![i].pc = "idle",
                                  ![i].memory = load_memory(sm_file),
                                  ![i].loaded = load_memory(sm_file)]
    /\ UNCHANGED sm_file
    /\ MemOnly

\* add_conversation up to the call of _save_memory
AddConversation(i) ==
    /\ sm_inst[i].pc = "idle"
    /\ sm_inst[i].added < MaxAdds
    /\ sm_inst' = [sm_inst EXCEPT
                     ![i].pc = "saving",
                     ![i].added = @ + 1,
                     ![i].memory = Append(@, [by |-> i, number |-> sm_inst[i].added + 1])]
    /\ UNCHANGED sm_file
    /\ MemOnly

\* _save_memory: open(self.memory_file, 'w')
SaveMemoryOpen(i) ==
    /\ sm_inst[i].pc = "saving"
    /\ sm_file' = [exists |-> TRUE, valid |-> FALSE, conversations |-> <<>>]
    /\ sm_inst' = [sm_inst EXCEPT ![i].pc = "dumping", ![i].overlapped = FALSE]
    /\ MemOnly

\* _save_memory: json.dump and close.  When another instance wrote the file
\* since this one opened it, the bytes of the two may be mixed: the file
\* holds this instance's JSON or no valid JSON.
SaveMemoryDump(i) ==
    /\ sm_inst[i].pc = "dumping"
    /\ \E mixed \in {FALSE, sm_inst[i].overlapped} :
          sm_file' = IF mixed
                     THEN [exists |-> TRUE, valid |-> FALSE, conversations |-> <<>>]
                     ELSE [exists |-> TRUE, valid |-> TRUE,
                           conversations |-> save_memory(sm_inst[i].memory, sm_file)]
    /\ sm_inst' = [j \in Instances |->
                     IF j = i THEN [sm_inst[j] EXCEPT !.pc = "idle"]
                     ELSE IF sm_inst[j].pc = "dumping"
                          THEN [sm_inst[j] EXCEPT !.overlapped = TRUE]
                          ELSE sm_inst[j]]
    /\ MemOnly

MemNext ==
    \E i \in Instances :
        \/ OpenMemory(i)
        \/ AddConversation(i)
        \/ SaveMemoryOpen(i)
        \/ SaveMemoryDump(i)

(***************************************************************************)
(* calculate_quality_score (session-02 labs/eval/run_eval.py)              *)
(*                                                                         *)
(* An output text is given by what the function reads of it: its number of *)
(* words, the key terms it contains, its numbers of "•" and of "-", and    *)
(* whether json.loads accepts it.                                          *)
(***************************************************************************)
key_terms == {"AI", "bank", "customer", "service", "cost", "reduction"}

MaxMarks == 2

Min(a, b) == IF a <= b THEN a ELSE b

calculate_quality_score(output, pattern) ==
    LET has_bullets == IF output.bullets > 0 \/ output.dashes > 0 THEN 20 ELSE 0
        word_count == output.words
        length == IF 30 <= word_count /\ word_count <= 100 THEN 20
                  ELSE IF word_count <= 150 THEN 10 ELSE 0
        found_terms == Cardinality(output.terms)
        relevance == Min(found_terms * 5, 25)
        json_check == IF pattern # "json" THEN 0
                      ELSE IF output.json_valid THEN 25 ELSE 0 - 20
        bullet_count == output.bullets + output.dashes
        structure == IF bullet_count = 3 THEN 10 ELSE IF bullet_count > 0 THEN 5 ELSE 0
    IN  Min(has_bullets + length + relevance + json_check + structure, 100)

\* A text with a mark, a key term or valid JSON in it has at least one word
CallCalculateQualityScore ==
    /\ fc_call = NoCall
    /\ \E words \in {0, 1, 29, 30, 100, 101, 150, 151}, terms \in SUBSET key_terms,
          bullets \in 0..MaxMarks, dashes \in 0..MaxMarks, json_valid \in BOOLEAN,
          pattern \in {"zero", "fewshot", "json"} :
          /\ words = 0 => terms = {} /\ bullets = 0 /\ dashes = 0 /\ ~json_valid
          /\ fc_call' = [fn |-> "calculate_quality_score", pattern |-> pattern,
                         output |-> [words |-> words, terms |-> terms, bullets |-> bullets,
                                     dashes |-> dashes, json_valid |-> json_valid]]
          /\ fc_result' = Ret(calculate_quality_score(fc_call'.output, pattern))
    /\ FnOnly

ScoreNext == CallCalculateQualityScore \/ FnReturns

(***************************************************************************)
(* SafePythonREPL (agent_swiss_army/tools/compute.py)                      *)
(*                                                                         *)
(* Code is a sequence of simple statements joined by ";".  A statement is  *)
(* an import of a module, a call of a name, print(...), an expression with *)
(* a value such as np.mean([1, 2, 3]), 1/0, an assignment, or text that    *)
(* does not parse.                                                         *)
(***************************************************************************)
ALLOWED_MODULES == {"pandas", "numpy", "json", "math", "datetime", "collections", "re"}

BLOCKED_FUNCTIONS ==
    {"eval", "exec", "compile", "open", "input", "raw_input", "__import__", "globals",
     "locals", "vars", "dir", "getattr", "setattr", "delattr", "hasattr"}

\* globals_dict['__builtins__']
safe_builtins ==
    {"print", "len", "range", "enumerate", "zip", "map", "filter", "sorted", "sum", "min",
     "max", "abs", "round", "str", "int", "float", "bool", "list", "dict", "set", "tuple",
     "type", "isinstance"}

MaxStatements == 2

is_safe_code(code) ==
    /\ \A i \in DOMAIN code : code[i].kind # "syntax_error"
    /\ \A i \in DOMAIN code :
          /\ code[i].kind = "call" => code[i].name \notin BLOCKED_FUNCTIONS
          /\ code[i].kind \in {"import", "from_import"} => code[i].name \in ALLOWED_MODULES

\* eval or exec of the statements from the i-th on in globals_dict: the
\* number of lines printed, or the exception.  An import statement calls
\* __builtins__['__import__']; evaluated as an expression, a value that is
\* not None is printed.
RECURSIVE Run(_, _, _, _)
Run(code, i, printed, as_expression) ==
    IF i > Len(code) THEN Ret(printed)
    ELSE LET stmt == code[i]
         IN  IF stmt.kind \in {"import", "from_import"}
             THEN IF "__import__" \in safe_builtins
                  THEN Run(code, i + 1, printed, as_expression)
                  ELSE Raise("ImportError")
             ELSE IF stmt.kind = "call"
             THEN IF stmt.name \in safe_builtins
                  THEN Run(code, i + 1, printed + (IF as_expression THEN 1 ELSE 0), as_expression)
                  ELSE Raise("NameError")
             ELSE IF stmt.kind = "print" THEN Run(code, i + 1, printed + 1, as_expression)
             ELSE IF stmt.kind = "value"
             THEN Run(code, i + 1, printed + (IF as_expression THEN 1 ELSE 0), as_expression)
             ELSE IF stmt.kind = "zero_division" THEN Raise("ZeroDivisionError")
             ELSE Run(code, i + 1, printed, as_expression)

execute(code) ==
    IF code = <<>> THEN Ret("No code provided")
    ELSE IF ~is_safe_code(code) THEN Ret("Error: Code contains unsafe operations")
    ELSE LET is_expression ==
                 Len(code) = 1 /\ code[1].kind \in {"call", "print", "value", "zero_division"}
             ran == Run(code, 1, 0, is_expression)
         IN  IF ran.raised
             THEN Handled(ran, {"Exception"}, "Execution error")
             ELSE IF ran.val > 0 THEN Ret("output")
             ELSE Ret("Code executed successfully (no output)")

CallExecute ==
    /\ fc_call = NoCall
    /\ \E n \in 0..MaxStatements :
          \E code \in [1..n ->
                         [kind : {"import", "from_import"}, name : {"numpy", "os"}]
                         \cup [kind : {"call"}, name : {"len", "eval", "undefined_name"}]
                         \cup [kind : {"print", "value", "zero_division", "assign",
                                       "syntax_error"}, name : {"none"}]] :
             /\ fc_call' = [fn |-> "execute", code |-> code]
             /\ fc_result' = execute(code)
    /\ FnOnly

ReplNext == CallExecute \/ FnReturns

(***************************************************************************)
(* csv_writer (agent_swiss_army/tools/csv_writer.py)                       *)
(*                                                                         *)
(* Text is a sequence of characters.  A dict is a function from keys to    *)
(* values, the data written to a file a sequence of dicts, one per row.    *)
(***************************************************************************)
\* str.strip()
StripWs(s) ==
    LET first == Skip(s, {" ", "\n"}, 1)
        last == CHOOSE j \in 0..Len(s) :
                    /\ j = 0 \/ s[j] \notin {" ", "\n"}
                    /\ \A k \in (j + 1)..Len(s) : s[k] \in {" ", "\n"}
    IN  SubSeq(s, first, last)

\* s.split(sep) for a separator of one character
RECURSIVE Split(_, _)
Split(s, sep) ==
    LET i == FirstOf(s, {sep}, 1)
    IN  IF i > Len(s) THEN <<s>>
        ELSE <<SubSeq(s, 1, i - 1)>> \o Split(SubSeq(s, i + 1, Len(s)), sep)

StartsWith(s, prefix) == Len(s) >= Len(prefix) /\ SubSeq(s, 1, Len(prefix)) = prefix

\* s.replace(old, '')
RECURSIVE Remove(_, _)
Remove(s, old) ==
    IF s = <<>> THEN <<>>
    ELSE IF StartsWith(s, old) THEN Remove(SubSeq(s, Len(old) + 1, Len(s)), old)
    ELSE <<Head(s)>> \o Remove(Tail(s), old)

\* The texts json.loads accepts among the data of the inputs, with their
\* values; a JSON dict is the row of a table of one row
JsonTexts ==
    <<"[", "{", "\"", "a", "\"", ":", " ", "1", "}", "]">> :> <<(<<"a">> :> <<"1">>)>> @@
    <<"[", "{", "\"", "a", "\"", ":", " ", "1", ",", " ", "\"", "b", "\"", ":", " ", "2", "}", "]">> :> <<(<<"a">> :> <<"1">> @@ <<"b">> :> <<"2">>)>> @@
    <<"{", "\"", "a", "\"", ":", " ", "1", "}">> :> <<(<<"a">> :> <<"1">>)>> @@
    <<"[", "]">> :> <<>>

\* The non-blank lines of a text, stripped
StrippedLines(text) ==
    LET lines == Split(text, "\n")
    IN  [i \in 1..Len(SelectSeq(lines, LAMBDA l : StripWs(l) # <<>>)) |->
            StripWs(SelectSeq(lines, LAMBDA l : StripWs(l) # <<>>)[i])]

\* dict(zip(keys, values))
DictZip(keys, values) ==
    [k \in {keys[i] : i \in DOMAIN keys} |->
        values[CHOOSE i \in DOMAIN keys : keys[i] = k /\ \A j \in DOMAIN keys : keys[j] = k => j <= i]]

parse_table_format(text) ==
    LET lines == StrippedLines(text)
        separator == IF Contains(lines[1], <<"|">>) THEN "|" ELSE ","
        cells(line) == LET parts == Split(line, separator)
                       IN  [i \in DOMAIN parts |-> StripWs(parts[i])]
        headers == cells(lines[1])
        kept == SelectSeq(Tail(lines),
                    LAMBDA line :
                        /\ ~(separator = "|" /\ (Contains(line, <<"-", "-", "-">>)
                                                  \/ Contains(line, <<"=", "=", "=">>)))
                        /\ Len(cells(line)) = Len(headers))
    IN  IF lines = <<>> THEN <<>>
        ELSE [i \in DOMAIN kept |-> DictZip(headers, cells(kept[i]))]

parse_key_value_format(text) ==
    LET lines == SelectSeq(StrippedLines(text), LAMBDA l : Contains(l, <<":">>))
        key(l) == StripWs(SubSeq(l, 1, FirstOf(l, {":"}, 1) - 1))
        value(l) == StripWs(SubSeq(l, FirstOf(l, {":"}, 1) + 1, Len(l)))
        data == DictZip([i \in DOMAIN lines |-> key(lines[i])],
                        [i \in DOMAIN lines |-> value(lines[i])])
    IN  IF lines = <<>> THEN <<>> ELSE <<data>>

\* _parse_input: the data and the filename, <<>> for the filename None
parse_input(input) ==
    LET stripped == StripWs(input)
        lines == Split(stripped, "\n")
        marked == {i \in DOMAIN lines : StartsWith(Lower(lines[i]), <<"f", "i", "l", "e", "n", "a", "m", "e", ":">>)}
        found == Contains(Lower(stripped), <<"f", "i", "l", "e", "n", "a", "m", "e", ":">>) /\ marked # {}
        line == lines[CHOOSE i \in marked : \A j \in marked : i <= j]
        filename == IF found
                    THEN StripWs(SubSeq(line, FirstOf(line, {":"}, 1) + 1, Len(line)))
                    ELSE <<>>
        data_input == IF found THEN StripWs(Remove(stripped, line)) ELSE stripped
        items == StrippedLines(data_input)
        data == IF data_input \in DOMAIN JsonTexts THEN JsonTexts[data_input]
                ELSE IF Contains(data_input, <<"|">>) \/ Contains(data_input, <<",">>)
                THEN parse_table_format(data_input)
                ELSE IF Contains(data_input, <<":">>) /\ Contains(data_input, <<"\n">>)
                THEN parse_key_value_format(data_input)
                ELSE [i \in DOMAIN items |-> (<<"i", "t", "e", "m">> :> items[i])]
    IN  [data |-> data, filename |-> filename]

\* What an operation answers, and the file it wrote with its rows
CsvResult(message, file, rows) == [message |-> message, file |-> file, rows |-> rows]

EndsWith(s, suffix) ==
    Len(s) >= Len(suffix) /\ SubSeq(s, Len(s) - Len(suffix) + 1, Len(s)) = suffix

\* The name of the file write_csv writes: the filename given or one made of
\* the time, with .csv at its end
csv_filename(filename) ==
    LET named == IF filename = <<>> THEN <<"d", "a", "t", "a", "_", "e", "x", "p", "o", "r", "t", "_", "T", ".", "c", "s", "v">> ELSE filename
    IN  IF EndsWith(named, <<".", "c", "s", "v">>) THEN named
        ELSE named \o <<".", "c", "s", "v">>

\* write_csv: the file written and its rows, or the error message
write_csv(data_input) ==
    LET parsed == parse_input(data_input)
    IN  IF parsed.data = <<>>
        THEN Ret(CsvResult("Error: No valid data found to write to CSV", <<>>, <<>>))
        ELSE Ret(CsvResult("CSV file created successfully!", csv_filename(parsed.filename),
                           parsed.data))

csv_operations(input) ==
    LET operation_input == StripWs(input)
    IN  IF StartsWith(Lower(operation_input), <<"r", "e", "a", "d", ":">>) 
        THEN Ret(CsvResult("read_csv", <<>>, <<>>))
        ELSE IF Lower(operation_input) = <<"l", "i", "s", "t">> 
        THEN Ret(CsvResult("list_csv_files", <<>>, <<>>))
        ELSE IF StartsWith(Lower(operation_input), <<"w", "r", "i", "t", "e", ":">>)
        THEN write_csv(StripWs(SubSeq(operation_input, 7, Len(operation_input))))
        ELSE write_csv(operation_input)

\* The data part of an input
CsvData ==
    {<<"[", "{", "\"", "a", "\"", ":", " ", "1", "}", "]">>,
     <<"[", "{", "\"", "a", "\"", ":", " ", "1", ",", " ", "\"", "b", "\"", ":", " ", "2", "}", "]">>,
     <<"{", "\"", "a", "\"", ":", " ", "1", "}">>,
     <<"[", "]">>,
     <<"a", "|", "b", "\n", "1", "|", "2">>,
     <<"a", " ", "|", " ", "b", "\n", "-", "-", "-", "|", "-", "-", "-", "\n", "1", " ", "|", " ", "2", "\n", "3">>,
     <<"a", ",", "b", "\n", "1", ",", "2">>,
     <<"k", ":", " ", "v", "\n", "j", ":", " ", "w">>,
     <<"x", "\n", "y">>,
     <<"x">>,
     <<>>}

\* An input is the data, alone or after "write: ", alone or after a line
\* "filename: F", or a read or list operation
CallCsvOperations ==
    /\ fc_call = NoCall
    /\ \E data \in CsvData,
          marker \in {<<>>, <<"w", "r", "i", "t", "e", ":", " ">>, <<"W", "R", "I", "T", "E", ":">>},
          filename \in {<<>>, <<"f">>, <<"f", ".", "c", "s", "v">>, <<"g", ".", "t", "x", "t">>},
          other \in {<<>>, <<"r", "e", "a", "d", ":", " ", "f", ".", "c", "s", "v">>, <<"l", "i", "s", "t">>} :
          LET first == IF filename = <<>> THEN <<>>
                       ELSE <<"f", "i", "l", "e", "n", "a", "m", "e", ":", " ">> \o filename \o <<"\n">>
              input == IF other # <<>> THEN other ELSE first \o marker \o data
          IN  /\ fc_call' = [fn |-> "csv_operations", input |-> input, data |-> data,
                             filename |-> filename,
                             two_part |-> /\ other = <<>> /\ first # <<>> /\ data # <<>>
                                          /\ marker = <<"w", "r", "i", "t", "e", ":", " ">>]
              /\ fc_result' = csv_operations(input)
    /\ FnOnly

CsvNext == CallCsvOperations \/ FnReturns

(***************************************************************************)
(* CostLatencyCallback (agent_swiss_army/callbacks.py)                     *)
(*                                                                         *)
(* Costs are counted in units of 10^-8 dollar, so that a price per million *)
(* tokens is a whole number per token.                                     *)
(***************************************************************************)
token_costs ==
    [m \in {"claude-3-haiku-20240307", "claude-3-sonnet-20240229", "claude-3-opus-20240229",
            "gpt-4o-mini", "gpt-4o"} |->
        CASE m = "claude-3-haiku-20240307" -> [input |-> 25, output |-> 125]
          [] m = "claude-3-sonnet-20240229" -> [input |-> 300, output |-> 1500]
          [] m = "claude-3-opus-20240229" -> [input |-> 1500, output |-> 7500]
          [] m = "gpt-4o-mini" -> [input |-> 15, output |-> 60]
          [] m = "gpt-4o" -> [input |-> 250, output |-> 1000]]

calculate_cost(model, input_tokens, output_tokens) ==
    LET costs == IF model \notin DOMAIN token_costs
                 THEN token_costs["claude-3-haiku-20240307"]
                 ELSE token_costs[model]
    IN  input_tokens * costs.input + output_tokens * costs.output

MaxLLMCalls == 2

\* on_llm_end(response, **kwargs): the object afterwards and the outcome.
\* llm_output is "None" (LLMResult's default), "missing" (an object without
\* the attribute), or the model name in the dict ("no_name" for a dict
\* without model_name).  A keyword argument that is not passed is "missing"
\* (-1 for input_tokens).
on_llm_end(self, response, kwargs) ==
    LET output_tokens == response.text_len \div 4
        counted == [self EXCEPT !.total_tokens = @ + output_tokens]
        from_output == IF response.llm_output \in {"missing", "no_name"} THEN "unknown"
                       ELSE response.llm_output
        model_name == IF from_output # "unknown" THEN from_output
                      ELSE IF kwargs.model_name = "missing" THEN "claude-3-haiku-20240307"
                      ELSE kwargs.model_name
        before == IF model_name \in DOMAIN self.model_usage THEN self.model_usage[model_name]
                  ELSE [calls |-> 0, tokens |-> 0, cost |-> 0]
        input_tokens == IF kwargs.input_tokens = 0 - 1 THEN 100 ELSE kwargs.input_tokens
        cost == calculate_cost(model_name, input_tokens, output_tokens)
        usage == [calls |-> before.calls + 1, tokens |-> before.tokens + output_tokens,
                  cost |-> before.cost + cost]
    IN  IF response.llm_output = "None"
        THEN [self |-> counted, result |-> Raise("AttributeError")]
        ELSE [self |-> [counted EXCEPT
                          !.total_cost = @ + cost,
                          !.model_usage = [m \in DOMAIN @ \cup {model_name} |->
                                              IF m = model_name THEN usage ELSE @[m]],
                          !.events = @ + 1,
                          !.current_llm_start = FALSE],
              result |-> Ret("None")]

CallbackInit ==
    /\ cb_self = [total_tokens |-> 0, total_cost |-> 0, llm_calls |-> 0, events |-> 0,
                  model_usage |-> <<>>, current_llm_start |-> FALSE]
    /\ cb_call = [fn |-> "none", ended |-> 0]

\* An LLM run starts when the one before it has ended
OnLLMStart ==
    /\ cb_self.llm_calls < MaxLLMCalls
    /\ cb_call.ended = cb_self.llm_calls
    /\ cb_self' = [cb_self EXCEPT !.current_llm_start = TRUE, !.llm_calls = @ + 1,
                                  !.events = @ + 1]
    /\ cb_call' = [fn |-> "none", ended |-> cb_call.ended]
    /\ CallbackOnly

OnLLMEnd ==
    /\ cb_call.ended < cb_self.llm_calls
    /\ \E text_len \in {0, 13, 40},
          llm_output \in {"None", "missing", "no_name", "unknown", "gpt-4o"},
          model_name \in {"missing", "claude-3-opus-20240229", "my-model"},
          input_tokens \in {0 - 1, 0, 10} :
          LET response == [text_len |-> text_len, llm_output |-> llm_output]
              kwargs == [model_name |-> model_name, input_tokens |-> input_tokens]
              ended == on_llm_end(cb_self, response, kwargs)
          IN  /\ cb_call' = [fn |-> "on_llm_end", ended |-> cb_call.ended + 1,
                             response |-> response, kwargs |-> kwargs,
                             before |-> cb_self, result |-> ended.result]
              /\ cb_self' = ended.self
    /\ CallbackOnly

CallbackNext == OnLLMStart \/ OnLLMEnd

(***************************************************************************)
(* PlanActReflectAgent.run                                                 *)
(*                                                                         *)
(* A step of a plan is a JSON string, given by its text, or a JSON value   *)
(* of another type.                                                        *)
(***************************************************************************)
MaxRunIterations == 3

MaxSteps == 2

Step(text) == [is_str |-> TRUE, text |-> text]

\* The plan that plan() returns when the response cannot be parsed
fallback_plan ==
    <<Step(<<"S", "e", "a", "r", "c", "h", " ", "f", "o", "r", " ", "i", "n", "f", "o", "r", "m", "a", "t", "i", "o", "n", " ", "a", "b", "o", "u", "t", " ", "t", "h", "e", " ", "l", "a", "r", "g", "e", "s", "t", " ", "c", "i", "t", "i", "e", "s", " ", "i", "n", " ", "E", "u", "r", "o", "p", "e">>),
      Step(<<"E", "x", "t", "r", "a", "c", "t", " ", "p", "o", "p", "u", "l", "a", "t", "i", "o", "n", " ", "d", "a", "t", "a", " ", "f", "o", "r", " ", "t", "h", "e", " ", "t", "o", "p", " ", "3", " ", "c", "i", "t", "i", "e", "s">>),
      Step(<<"C", "a", "l", "c", "u", "l", "a", "t", "e", " ", "t", "h", "e", " ", "a", "v", "e", "r", "a", "g", "e", " ", "o", "f", " ", "t", "h", "e", "s", "e", " ", "t", "h", "r", "e", "e", " ", "p", "o", "p", "u", "l", "a", "t", "i", "o", "n", "s">>)>>

\* execute_step(step, step_number): the dict it returns; step.lower() is
\* evaluated before the try block
execute_step_except_none == {}

execute_step_except == {"Exception"}

execute_step(step, tool_outcome) ==
    LET body ==
            IF ~step.is_str THEN Raise("AttributeError")
            ELSE IF tool_outcome # "ok" THEN Raise(tool_outcome)
            ELSE Ret([step |-> step, tool_used |-> execute_step_tool(step.text),
                      result |-> "tool result", success |-> TRUE])
    IN  IF step.is_str
        THEN Handled(body, execute_step_except,
                     [step |-> step, tool_used |-> "None", result |-> "Error", success |-> FALSE])
        ELSE body

\* if reflection.get("goal_achieved", False): break
goal_reached_never(reflection) == FALSE

goal_reached(reflection) == reflection.goal_achieved

RunInit ==
    /\ par_pc = "unstarted"
    /\ par_max_iterations = 0
    /\ par_iteration = 0
    /\ par_plan = <<>>
    /\ par_results = <<>>
    /\ par_reflection = Parsed("none", FALSE)
    /\ par_cycles = 0
    /\ par_return = Ret(0)

\* run(goal, max_iterations) up to the first iteration; with an empty range
\* the return statement reads `plan`, which was never bound
RunStart ==
    /\ par_pc = "unstarted"
    /\ \E max_iterations \in 0..MaxRunIterations :
          /\ par_max_iterations' = max_iterations
          /\ par_pc' = IF max_iterations = 0 THEN "raised" ELSE "plan"
          /\ par_return' = IF max_iterations = 0 THEN Raise("UnboundLocalError") ELSE par_return
    /\ UNCHANGED <<par_iteration, par_plan, par_results, par_reflection, par_cycles>>
    /\ RunOnly

\* plan = self.plan(goal); execution_results = []
PlanStep ==
    /\ par_pc = "plan"
    /\ \E response \in {<<Seg("prose")>>, <<JsonOther("array")>>,
                        <<JsonObject("absent", "absent")>>, <<JsonObject("absent", "list")>>},
          n \in 0..MaxSteps :
          \E steps \in [1..n -> {Step(t) : t \in TaskResponses} \cup {[is_str |-> FALSE, text |-> <<>>]}] :
             LET planned == plan(response)
                 new_plan == IF planned.raised THEN par_plan
                             ELSE IF planned.val.kind = "fallback_plan" THEN fallback_plan
                             ELSE IF response[1].steps = "absent" THEN <<>>
                             ELSE steps
             IN  /\ par_plan' = new_plan
                 /\ par_results' = IF planned.raised THEN par_results ELSE <<>>
                 /\ par_pc' = IF planned.raised THEN "raised"
                              ELSE IF new_plan = <<>> THEN "reflect" ELSE "act"
                 /\ par_return' = IF planned.raised THEN planned ELSE par_return
    /\ UNCHANGED <<par_max_iterations, par_iteration, par_reflection, par_cycles>>
    /\ RunOnly

\* One pass of `for i, step in enumerate(plan)`
ExecutePlanStep ==
    /\ par_pc = "act"
    /\ \E tool_outcome \in {"ok", "ConnectionError", "KeyError"} :
          LET result == execute_step(par_plan[Len(par_results) + 1], tool_outcome)
          IN  IF result.raised
              THEN /\ par_pc' = "raised"
                   /\ par_return' = result
                   /\ UNCHANGED par_results
              ELSE /\ par_results' = Append(par_results, result.val)
                   /\ par_pc' = IF Len(par_results) + 1 = Len(par_plan) THEN "reflect" ELSE "act"
                   /\ UNCHANGED par_return
    /\ UNCHANGED <<par_max_iterations, par_iteration, par_plan, par_reflection, par_cycles>>
    /\ RunOnly

\* reflection = self.reflect(goal, plan, execution_results)
Reflect ==
    /\ par_pc = "reflect"
    /\ \E response \in AssessResponses :
          LET reflected == reflect(response)
          IN  IF reflected.raised
              THEN /\ par_pc' = "raised"
                   /\ par_return' = reflected
                   /\ UNCHANGED <<par_reflection, par_cycles>>
              ELSE /\ par_reflection' = reflected.val
                   /\ par_cycles' = par_cycles + 1
                   /\ par_pc' = "check"
                   /\ UNCHANGED par_return
    /\ UNCHANGED <<par_max_iterations, par_iteration, par_plan, par_results>>
    /\ RunOnly

\* The break, the next value of range(max_iterations), and the return
LoopCheck ==
    /\ par_pc = "check"
    /\ IF ~goal_reached(par_reflection) /\ par_iteration + 1 < par_max_iterations
       THEN /\ par_iteration' = par_iteration + 1
            /\ par_pc' = "plan"
            /\ UNCHANGED par_return
       ELSE /\ par_pc' = "returned"
            /\ par_return' = Ret(par_iteration + 1)
            /\ UNCHANGED par_iteration
    /\ UNCHANGED <<par_max_iterations, par_plan, par_results, par_reflection, par_cycles>>
    /\ RunOnly

RunNext == RunStart \/ PlanStep \/ ExecutePlanStep \/ Reflect \/ LoopCheck

(***************************************************************************)
(* RouterChain (agent_swiss_army/chains.py)                                *)
(***************************************************************************)
simple_indicators ==
    << <<"w", "h", "a", "t", " ", "i", "s">>,
       <<"c", "a", "l", "c", "u", "l", "a", "t", "e">>,
       <<"c", "o", "n", "v", "e", "r", "t">>,
       <<"d", "e", "f", "i", "n", "e">>,
       <<"s", "e", "a", "r", "c", "h", " ", "f", "o", "r">>,
       <<"f", "i", "n", "d">>,
       <<"l", "o", "o", "k", "u", "p">>,
       <<"c", "u", "r", "r", "e", "n", "t">>,
       <<"t", "o", "d", "a", "y">>,
       <<"w", "e", "a", "t", "h", "e", "r">> >>

complex_indicators ==
    << <<"a", "n", "a", "l", "y", "z", "e">>,
       <<"c", "o", "m", "p", "a", "r", "e">>,
       <<"e", "v", "a", "l", "u", "a", "t", "e">>,
       <<"p", "l", "a", "n">>,
       <<"s", "t", "r", "a", "t", "e", "g", "y">>,
       <<"c", "r", "e", "a", "t", "e", " ", "a", " ", "r", "e", "p", "o", "r", "t">>,
       <<"s", "u", "m", "m", "a", "r", "i", "z", "e", " ", "m", "u", "l", "t", "i", "p", "l", "e">>,
       <<"r", "e", "s", "e", "a", "r", "c", "h">>,
       <<"w", "r", "i", "t", "e", " ", "a">>,
       <<"e", "x", "p", "l", "a", "i", "n", " ", "w", "h", "y">>,
       <<"p", "r", "o", "s", " ", "a", "n", "d", " ", "c", "o", "n", "s">> >>

MaxRouterWords == 2

assess_complexity_simple_first(user_input) ==
    LET user_input_lower == Lower(user_input)
    IN  IF AnyKeyword(user_input_lower, simple_indicators) THEN "simple"
        ELSE IF AnyKeyword(user_input_lower, complex_indicators) THEN "complex"
        ELSE IF Len(user_input) < 100 THEN "simple" ELSE "complex"

assess_complexity(user_input) ==
    LET user_input_lower == Lower(user_input)
    IN  IF AnyKeyword(user_input_lower, complex_indicators) THEN "complex"
        ELSE IF AnyKeyword(user_input_lower, simple_indicators) THEN "simple"
        ELSE IF Len(user_input) < 100 THEN "simple" ELSE "complex"

\* RouterChain.run: the chains whose run method it calls
router_run(user_input) ==
    IF assess_complexity(user_input) = "simple" THEN {"fast_chain"} ELSE {"powerful_chain"}

\* A request is put together from words, with a blank after each, and
\* filled up with the letter x
CallRouterRun ==
    /\ fc_call = NoCall
    /\ \E n \in 0..MaxRouterWords, filled \in {0, 93, 94} :
          \E words \in [1..n -> {<<"A", "n", "a", "l", "y", "z", "e">>,
                          <<"w", "h", "a", "t", " ", "i", "s">>,
                          <<"f", "i", "n", "d">>,
                          <<"e", "x", "p", "l", "a", "n", "a", "t", "i", "o", "n">>,
                          <<"h", "e", "l", "l", "o">>,
                          <<"P", "R", "O", "S", " ", "A", "N", "D", " ", "C", "O", "N", "S">>,
                          <<"W", "e", "a", "t", "h", "e", "r">>}] :
             LET RECURSIVE Joined(_)
                 Joined(i) == IF i > n THEN [k \in 1..filled |-> "x"]
                              ELSE words[i] \o <<" ">> \o Joined(i + 1)
             IN  /\ fc_call' = [fn |-> "run", user_input |-> Joined(1)]
                 /\ fc_result' = Ret(router_run(Joined(1)))
    /\ FnOnly

RouterNext == CallRouterRun \/ FnReturns

(***************************************************************************)
(* The specifications                                                      *)
(***************************************************************************)
Init ==
    /\ MeterInit
    /\ DispatchInit
    /\ ParseInit
    /\ LoopInit
    /\ ToolsInit
    /\ EnvInit
    /\ FnInit
    /\ MemInit
    /\ CallbackInit
    /\ RunInit

MeterSpec == Init /\ [][MeterNext]_vars

DispatchSpec == Init /\ [][DispatchNext]_vars

ParseSpec == Init /\ [][ParseNext]_vars

LoopSpec == Init /\ [][LoopNext]_vars

ToolsSpec == Init /\ [][ToolsNext]_vars

EnvSpec == Init /\ [][EnvNext]_vars

\* The loop is one thread of control: a step that can be taken is taken
LoopFairSpec == Init /\ [][LoopNext]_vars /\ WF_vars(LoopNext)

ChatSpec == Init /\ [][ChatNext]_vars

MemSpec == Init /\ [][MemNext]_vars

ScoreSpec == Init /\ [][ScoreNext]_vars

ReplSpec == Init /\ [][ReplNext]_vars

CsvSpec == Init /\ [][CsvNext]_vars

CallbackSpec == Init /\ [][CallbackNext]_vars

RunSpec == Init /\ [][RunNext]_vars

RouterSpec == Init /\ [][RouterNext]_vars

(***************************************************************************)
(* The claims                                                              *)
(***************************************************************************)

\* estimate_cost has been called on the meter, and returned
MeterCalled == pm_built /\ pm_args.model # "none"

MeterReturned == MeterCalled /\ ~pm_result.raised

\* C1: for a provider of the price table, every returned total cost is >= 0,
\* and a call with the same model as the call before it and with no fewer
\* input tokens and no fewer output tokens costs no less than that call.
C1_CostNonNegativeMonotone ==
    [][ (MeterReturned' /\ pm_provider' \in DOMAIN PRICING) =>
          /\ pm_result'.val.total_cost >= 0
          /\ ( /\ MeterReturned
               /\ pm_provider' = pm_provider
               /\ pm_tokenizer' = pm_tokenizer
               /\ pm_args'.model = pm_args.model
               /\ pm_result'.val.breakdown.input_tokens >= pm_result.val.breakdown.input_tokens
               /\ pm_result'.val.breakdown.output_tokens >= pm_result.val.breakdown.output_tokens )
             => pm_result'.val.total_cost >= pm_result.val.total_cost ]_vars

\* A priced call with tokens on both sides and a positive cost
C1_Witness ==
    /\ MeterReturned
    /\ pm_provider \in DOMAIN PRICING
    /\ pm_result.val.breakdown.input_tokens >= 1
    /\ pm_result.val.breakdown.output_tokens >= 1
    /\ pm_result.val.total_cost > 0

\* C2: without a tokenizer the token counts are floor(len / 4); for a model of
\* the provider's table the total is input tokens times the model's input
\* price plus output tokens times its output price (per 1M tokens), and the
\* breakdown's input_cost + output_cost is its total_cost.
C2_TokenProxyAndPriceFormula ==
    (MeterReturned /\ ~pm_tokenizer /\ pm_provider \in DOMAIN PRICING) =>
        LET b == pm_result.val.breakdown
        IN  /\ b.present
            /\ b.input_tokens = pm_args.input_len \div 4
            /\ b.output_tokens = pm_args.output_len \div 4
            /\ b.input_cost + b.output_cost = b.total_cost
            /\ b.total_cost = pm_result.val.total_cost
            /\ pm_args.model \in ModelsOf(pm_provider) =>
                 \E i \in DOMAIN PRICING[pm_provider] :
                    /\ PRICING[pm_provider][i].model = pm_args.model
                    /\ b.total_cost =
                         (pm_args.input_len \div 4) * PRICING[pm_provider][i].input
                         + (pm_args.output_len \div 4) * PRICING[pm_provider][i].output

\* A call without tokenizer on texts of 4 characters or more, priced by its own model
C2_Witness ==
    /\ MeterReturned
    /\ ~pm_tokenizer
    /\ pm_provider = s_openai
    /\ pm_args.model = "gpt-4o-mini"
    /\ pm_args.input_len >= 4
    /\ pm_args.output_len >= 4
    /\ pm_result.val.total_cost = 750

\* The first model of each provider's table, as the claim names it
FirstListedModel ==
    s_openai :> "gpt-4o" @@ s_anthropic :> "claude-3-5-sonnet-20241022" @@
    s_google :> "gemini-2.0-flash-exp"

\* C3: for a provider of the price table and a model that is not in that
\* provider's table, estimate_cost returns (it does not raise) the cost at
\* the prices of the first model listed for the provider.
C3_UnknownModelFallsBackToFirst ==
    (MeterCalled /\ pm_provider \in DOMAIN PRICING /\ pm_args.model \notin ModelsOf(pm_provider)) =>
        /\ ~pm_result.raised
        /\ LET b == pm_result.val.breakdown
               first == EntryOf(pm_provider, FirstListedModel[pm_provider])
           IN  /\ b.present
               /\ pm_result.val.total_cost =
                    b.input_tokens * first.input + b.output_tokens * first.output

\* A call for a model the provider does not list, priced at gpt-4o's prices
C3_Witness ==
    /\ MeterReturned
    /\ pm_provider = s_openai
    /\ pm_args.model = "no-such-model"
    /\ pm_result.val.breakdown.input_tokens = 1
    /\ pm_result.val.breakdown.output_tokens = 1
    /\ pm_result.val.total_cost = 12500

\* C4: estimate_cost never raises, whatever provider the meter was built with.
C4_EstimateCostNeverRaises ==
    MeterCalled => ~pm_result.raised

ToolNames == {"web_search", "calculator", "current_date"}

\* The first-match rule over three keyword groups tested on `text`
FirstMatchRule(tool, text, search, calculate, date) ==
    LET S == \E k \in DOMAIN search : Contains(text, search[k])
        C == \E k \in DOMAIN calculate : Contains(text, calculate[k])
        D == \E k \in DOMAIN date : Contains(text, date[k])
    IN  /\ tool \in ToolNames
        /\ S => tool = "web_search"
        /\ (~S /\ C) => tool = "calculator"
        /\ (~S /\ ~C /\ D) => tool = "current_date"
        /\ (~S /\ ~C /\ ~D) => tool = "web_search"

\* C5: execute_task and execute_step each choose one of the three tools for
\* every task text, by testing the search, the calculate and the date keywords
\* on the lower-cased text in that order, the first group that matches
\* winning and web_search being chosen when none matches.
C5_FirstMatchDispatch ==
    /\ d_autogpt_tool # "none" =>
          FirstMatchRule(d_autogpt_tool, Lower(d_task), autogpt_search_keywords,
                         autogpt_calculate_keywords, autogpt_date_keywords)
    /\ d_par_tool # "none" =>
          FirstMatchRule(d_par_tool, Lower(d_task), par_search_keywords,
                         par_calculate_keywords, par_date_keywords)

\* A task written "Calculate", " ", "Search": a calculate keyword and a search
\* keyword in mixed case, sent to web_search by both agents
C5_Witness ==
    /\ d_task = <<"C", "a", "l", "c", "u", "l", "a", "t", "e", " ", "S", "e", "a", "r", "c", "h">>
    /\ d_autogpt_tool = "web_search"
    /\ d_par_tool = "web_search"

\* C8: json_schema, assess_goal_progress, plan and reflect return a value for
\* every response text; no exception leaves them.
C8_MalformedOutputNeverRaises ==
    ps_fn # "none" => ~ps_result.raised

LoopEnded == ag_pc \in {"done", "raised"}

\* C6: run_autonomous_loop ends (it returns or an exception leaves it), having
\* entered at most max_iterations iterations, executed at most max_iterations
\* tasks and made at most 2 * max_iterations + 1 LLM calls.
C6_LoopTerminatesWithinBounds ==
    /\ [](/\ ag_iteration <= ag_max_iterations
          /\ Len(ag_actions_taken) <= ag_max_iterations
          /\ ag_llm_calls <= 2 * ag_max_iterations + 1)
    /\ <>LoopEnded

\* A run that used every iteration, every task and every LLM call it may
C6_Witness ==
    /\ ag_pc = "done"
    /\ ag_max_iterations = MaxIterations
    /\ ag_iteration = ag_max_iterations
    /\ Len(ag_actions_taken) = ag_max_iterations
    /\ ag_llm_calls = 2 * ag_max_iterations + 1
    /\ \E i \in DOMAIN ag_actions_taken : ~ag_actions_taken[i].success

\* C7: once the cost limit has been found exceeded, no LLM call is made, no
\* tool is executed and estimated_cost does not grow.
C7_NoChargeAfterCostLimit ==
    [][ ag_exit = "cost" =>
          /\ ag_llm_calls' = ag_llm_calls
          /\ ag_actions_taken' = ag_actions_taken
          /\ ag_estimated_cost' = ag_estimated_cost ]_vars

ToolCalled(tool) == tl_call.tool = tool

\* C9: web_search_tool, math_calculator_tool, HTTPClient.make_request and
\* EmailSender.send_email return a string for every input and every failure
\* of the call under them: a failed search gives "Search error", a division
\* by zero "Error: Division by zero", a character outside the allowed ones
\* "Error: Only basic math operations", a network error and a JSON value
\* that is no object "HTTP request failed" or "Email sending failed".
C9_ToolErrorsAreValues ==
    /\ tl_call # NoToolCall => ~tl_result.raised /\ tl_result.val # "none"
    /\ ToolCalled("web_search_tool") /\ tl_call.ddgs.exc # "none" =>
          tl_result.val = "Search error"
    /\ ToolCalled("math_calculator_tool") =>
          LET stripped == Strip(tl_call.expression)
              allowed == \A i \in 1..Len(stripped) : stripped[i] \in allowed_chars
          IN  /\ allowed /\ python_eval(stripped).exc = "ZeroDivisionError" =>
                    tl_result.val = "Error: Division by zero"
              /\ ~allowed /\ ~Contains(Lower(stripped), <<"s", "q", "r", "t">>) =>
                    tl_result.val = "Error: Only basic math operations"
    /\ ToolCalled("make_request") /\ tl_call.request_data.truthy =>
          /\ tl_call.request_data.json # "object" => tl_result.val = "HTTP request failed"
          /\ /\ tl_call.request_data.json = "object"
             /\ is_url_allowed(tl_call.request_data.url)
             /\ ~tl_call.request_data.method.present
             /\ tl_call.request_data.headers # "number"
             /\ tl_call.network # "ok"
             => tl_result.val = "HTTP request failed"
    /\ /\ ToolCalled("send_email")
       /\ tl_call.email_data.truthy
       /\ tl_call.email_data.json # "object"
       => tl_result.val = "Email sending failed"

\* 7/0: the calculator answers with the division-by-zero message
C9_Witness ==
    /\ ToolCalled("math_calculator_tool")
    /\ tl_call.expression = <<"7", "/", "0">>
    /\ tl_result = Ret("Error: Division by zero")

ConstructedWithout(fn) ==
    /\ cf_call.fn = fn
    /\ cf_call.uses \in EnvVariables
    /\ env[cf_call.uses] = "unset"

\* C10 as stated: for each of the five variables, constructing the client or
\* tool that uses it while it is unset raises, and no request is made.
C10_UnsetVariableRaisesAtConstruction ==
    \A fn \in {"LLMClient", "WebSearchTool", "create_search_tool", "_create_chat_history"} :
        ConstructedWithout(fn) => cf_result.raised /\ ~cf_used

\* C10, amended: LLMClient without its provider's key and WebSearchTool
\* without TAVILY_API_KEY and without an api_key argument raise ValueError at
\* construction, an empty value counting as unset, and no request is made;
\* create_search_tool without TAVILY_API_KEY returns a mock search tool and
\* _create_chat_history without REDIS_URL returns a file-based history, and
\* neither raises.
C10_KeysRaiseOthersFallBack ==
    /\ \A fn \in {"LLMClient", "WebSearchTool"} :
          /\ cf_call.fn = fn
          /\ cf_call.uses \in EnvVariables
          /\ env[cf_call.uses] \in {"unset", "empty"}
          => cf_result = Raise("ValueError") /\ ~cf_used
    /\ ConstructedWithout("create_search_tool") => cf_result = Ret("mock web_search Tool")
    /\ ConstructedWithout("_create_chat_history") => cf_result = Ret("FileChatMessageHistory")

\* LLMClient("GOOGLE") with GOOGLE_API_KEY unset while the other keys are set
C10_Witness ==
    /\ cf_call = [fn |-> "LLMClient", uses |-> "GOOGLE_API_KEY"]
    /\ env["GOOGLE_API_KEY"] = "unset"
    /\ env["OPENAI_API_KEY"] = "set"
    /\ cf_result = Raise("ValueError")

\* C11: for each of the providers openai, anthropic and google, a chat call
\* that returns has given the provider every message of the conversation,
\* in order and with none dropped.
C11_WholeConversationReachesProvider ==
    fc_call.fn = "chat" /\ ~fc_result.raised =>
        fc_result.val.system \o fc_result.val.messages = fc_call.messages

AddedBy(i) == {k \in DOMAIN sm_file.conversations : sm_file.conversations[k].by = i}

BothAddedFromSameFile ==
    /\ \A i \in Instances : sm_inst[i].pc = "idle" /\ sm_inst[i].added >= 1
    /\ sm_inst[1].loaded = sm_inst[2].loaded

\* C12: nothing locks the file.  When two instances that loaded the same
\* file content have each added a conversation and saved, the file never
\* holds the additions of both: one of the two is lost (or the file is no
\* valid JSON), and the state in which exactly one survives is reached.
C12_ConcurrentWritersLoseUpdate ==
    BothAddedFromSameFile => AddedBy(1) = {} \/ AddedBy(2) = {}

\* Both have added and saved; the file is valid and holds the conversation
\* of instance 2 only
C12_Witness ==
    /\ BothAddedFromSameFile
    /\ sm_file.valid
    /\ sm_file.conversations = <<[by |-> 2, number |-> 1]>>

\* make_request reached requests.request: without a network failure it
\* answers with the formatted response
RequestSent ==
    /\ ToolCalled("make_request")
    /\ make_request(tl_call.request_data, "ok") = Ret("HTTP Status")

\* C13: a request is sent only when the host it is sent to is one of
\* allowed_domains and the method is one of the allowed methods.
C13_RequestsOnlyToAllowedHosts ==
    RequestSent =>
        /\ request_host(tl_call.request_data.url.text) \in allowed_domains
        /\ \/ ~tl_call.request_data.method.present
           \/ Upper(tl_call.request_data.method.text) \in allowed_methods

\* C14: calculate_quality_score returns a score from 0 to 100 inclusive for
\* every output and every pattern.
C14_ScoreWithin0And100 ==
    fc_call.fn = "calculate_quality_score" =>
        0 <= fc_result.val /\ fc_result.val <= 100

\* C15: code that imports a whitelisted module and then computes a value
\* passes the safety check and execute returns its output, no error string.
C15_WhitelistedImportRuns ==
    /\ fc_call.fn = "execute"
    /\ Len(fc_call.code) = 2
    /\ fc_call.code[1].kind = "import" /\ fc_call.code[1].name \in ALLOWED_MODULES
    /\ fc_call.code[2].kind \in {"value", "print"}
    => fc_result.val \in {"output", "Code executed successfully (no output)"}

\* C16: the two-part form, a line 'filename: F' followed by 'write: ' and
\* the data, writes to F (with .csv appended when missing) exactly what the
\* data alone writes: neither the marker nor the filename line is in it.
C16_TwoPartFormWritesTheData ==
    fc_call.fn = "csv_operations" /\ fc_call.two_part =>
        LET alone == csv_operations(fc_call.data).val
            file == IF fc_call.filename = <<"f", ".", "c", "s", "v">>
                    THEN fc_call.filename
                    ELSE fc_call.filename \o <<".", "c", "s", "v">>
        IN  fc_result.val = IF alone.rows = <<>> THEN alone ELSE [alone EXCEPT !.file = file]

\* C17: the outbox keeps every sent email.  After n send_email calls that
\* answered with the success message the outbox holds at least n files and
\* "list" shows a line for each of them.
C17_OutboxKeepsEverySentEmail ==
    /\ Cardinality(DOMAIN em_outbox) >= em_sent
    /\ Len(list_sent_emails(em_outbox)) >= em_sent

\* C18: on_llm_end accepts a result without llm_output, as LLMResult(
\* generations=...) builds it: it does not raise, it records the call under
\* the model name of the invocation parameters or else under
\* claude-3-haiku-20240307, and it adds the output tokens and the estimated
\* cost to the totals.
C18_ResultWithoutLLMOutputIsRecorded ==
    cb_call.fn = "on_llm_end" /\ cb_call.response.llm_output \in {"None", "missing"} =>
        LET model_name == IF cb_call.kwargs.model_name = "missing"
                          THEN "claude-3-haiku-20240307"
                          ELSE cb_call.kwargs.model_name
            output_tokens == cb_call.response.text_len \div 4
        IN  /\ ~cb_call.result.raised
            /\ model_name \in DOMAIN cb_self.model_usage
            /\ cb_self.total_tokens = cb_call.before.total_tokens + output_tokens
            /\ cb_self.total_cost > cb_call.before.total_cost

\* C19: for max_iterations >= 1 run makes at most max_iterations cycles; no
\* plan, step or reflection follows a reflection that reports goal_achieved
\* true; after a negative or unparsable reflection the next cycle starts
\* while iterations are left; the returned 'iterations' is the number of
\* cycles made.
C19_RunStopsAtGoalOrLimit ==
    /\ [](par_max_iterations >= 1 =>
            /\ par_cycles <= par_max_iterations
            /\ par_pc \in {"plan", "act", "reflect"} /\ par_cycles > 0 =>
                  ~par_reflection.goal_achieved
            /\ par_pc = "returned" =>
                  /\ par_return.val = par_cycles
                  /\ par_reflection.goal_achieved \/ par_cycles = par_max_iterations)
    /\ [][ /\ par_pc = "check"
           /\ ~par_reflection.goal_achieved
           /\ par_cycles < par_max_iterations
           => par_pc' = "plan" /\ par_cycles' = par_cycles ]_vars

\* Two cycles of three allowed: the first reflection was negative or
\* unparsable, the second reported the goal achieved
C19_Witness ==
    /\ par_pc = "returned"
    /\ par_max_iterations = 3
    /\ par_return.val = 2
    /\ par_reflection.goal_achieved

\* C20: within a cycle the results are those of the steps of the plan, one
\* each and in plan order; reflect is called only with one result per step;
\* a step whose tool raised has success false and no tool, and the
\* exception of a tool never leaves run.
C20_EveryStepOnceInOrder ==
    /\ Len(par_results) <= Len(par_plan)
    /\ \A i \in DOMAIN par_results :
          /\ par_results[i].step = par_plan[i]
          /\ par_results[i].success => par_results[i].tool_used = execute_step_tool(par_plan[i].text)
          /\ ~par_results[i].success => par_results[i].tool_used = "None"
    /\ par_pc \in {"reflect", "check", "returned"} => Len(par_results) = Len(par_plan)
    /\ par_pc = "act" => Len(par_results) < Len(par_plan)
    /\ par_pc = "raised" => par_return.exc \notin {"ConnectionError", "KeyError"}

\* reflect is about to be called after a plan of two steps: the tool of the
\* first raised, the second step was executed all the same
C20_Witness ==
    /\ par_pc = "reflect"
    /\ Len(par_plan) = 2
    /\ Len(par_results) = 2
    /\ ~par_results[1].success
    /\ par_results[2].success

\* C21: the 'iterations' that run_autonomous_loop returns is the number of
\* iterations that ran to completion: it equals total_actions on every exit
\* path.
C21_IterationsEqualActions ==
    ag_result.returned => ag_result.iterations = ag_result.total_actions

\* C22: actions_taken gains exactly one record with every execute_task call,
\* failed or not, and is changed by nothing else; facts_learned has one entry
\* per successful execution, so facts <= actions <= iterations entered; after
\* an execution, failed or not, the loop goes back to its while test; and
\* estimated_cost never decreases.
C22_MemoryAndCostBookkeeping ==
    /\ [](/\ Cardinality(ag_facts_learned) =
               Cardinality({i \in DOMAIN ag_actions_taken : ag_actions_taken[i].success})
          /\ Cardinality(ag_facts_learned) <= Len(ag_actions_taken)
          /\ Len(ag_actions_taken) <= ag_iteration)
    /\ [][ /\ ag_pc = "execute" =>
                /\ Len(ag_actions_taken') = Len(ag_actions_taken) + 1
                /\ SubSeq(ag_actions_taken', 1, Len(ag_actions_taken)) = ag_actions_taken
                /\ ag_pc' = "while"
           /\ ag_pc # "execute" => ag_actions_taken' = ag_actions_taken
           /\ ag_estimated_cost' >= ag_estimated_cost ]_vars

\* After a failed execution the loop went on: a second task was executed,
\* with success, and is the only fact
C22_Witness ==
    /\ ag_pc = "while"
    /\ Len(ag_actions_taken) = 2
    /\ ~ag_actions_taken[1].success
    /\ ag_actions_taken[2].success
    /\ ag_facts_learned = {2}
    /\ ag_estimated_cost > 0

\* C23: RouterChain.run calls exactly one chain: the powerful chain when the
\* input holds a complex indicator, whatever else it holds; otherwise the
\* fast chain when it holds a simple indicator; otherwise the fast chain
\* when it is shorter than 100 characters and the powerful chain when not.
C23_RoutingFollowsComplexity ==
    fc_call.fn = "run" =>
        LET lower == Lower(fc_call.user_input)
            has_complex == \E i \in DOMAIN complex_indicators : Contains(lower, complex_indicators[i])
            has_simple == \E i \in DOMAIN simple_indicators : Contains(lower, simple_indicators[i])
        IN  /\ Cardinality(fc_result.val) = 1
            /\ fc_result.val \subseteq {"fast_chain", "powerful_chain"}
            /\ "powerful_chain" \in fc_result.val <=> assess_complexity(fc_call.user_input) = "complex"
            /\ has_complex => fc_result.val = {"powerful_chain"}
            /\ ~has_complex /\ has_simple => fc_result.val = {"fast_chain"}
            /\ ~has_complex /\ ~has_simple /\ Len(fc_call.user_input) < 100 =>
                  fc_result.val = {"fast_chain"}
            /\ ~has_complex /\ ~has_simple /\ Len(fc_call.user_input) >= 100 =>
                  fc_result.val = {"powerful_chain"}

\* "find Analyze ": a simple and a complex indicator, run by the powerful chain
C23_Witness ==
    /\ fc_call.fn = "run"
    /\ fc_call.user_input = <<"f", "i", "n", "d", " ", "A", "n", "a", "l", "y", "z", "e", " ">>
    /\ fc_result.val = {"powerful_chain"}

====
